---- MODULE Spec2Model ----
(***************************************************************************)
(* procmon-cli: the monitoring loop of monitor.ts (startMonitor), the      *)
(* sample collection of process.ts (getProcesses, getProcessStats) and the *)
(* alert engine of alerts.ts (checkAlerts).                                *)
(*                                                                         *)
(* JavaScript runs one callback at a time, so the states other callbacks   *)
(* (the SIGINT/SIGTERM handler, a dashboard request) can observe are the   *)
(* states at the loop's await points.  The model has one state per await   *)
(* point: pc = "polling" while `await getProcesses(...)` is pending and    *)
(* pc = "sleeping" while `await sleep(interval)` is pending.               *)
(***************************************************************************)
EXTENDS Integers, Sequences, FiniteSets, TLC

VARIABLES
    pc,            \* "polling" | "sleeping" | "exited" ("idle": no session)
    isRunning,     \* monitor.ts:42
    history,       \* monitor.ts:43  Map<pid, ProcessHistory>
    processes,     \* monitor.ts:131 the tick's ProcessInfo[] (loop local)
    now,           \* the value Date.now() returns
    interval,      \* MonitorOptions.interval
    alertCpu,      \* MonitorOptions.alertCpu    (Undefined when omitted)
    alertMemory,   \* MonitorOptions.alertMemory (Undefined when omitted)
    activeAlerts,  \* alerts.ts:19   Map<alertKey, lastFired>
    alertHistory,  \* alerts.ts:23   Alert[]
    newAlerts,     \* what the last checkAlerts call returned
    checkCalls,    \* history variable: number of checkAlerts calls
    poll,          \* history variable: what the lister and the provider did in the last tick
    submitted,     \* history variable: every sample ever recorded, per pid
    ticks,         \* history variable: completed ticks
    summary,       \* the rows renderSummary printed (Undefined before cleanup)
    cmdLine,       \* extractScriptName: the argument cmd
    scriptName,    \* extractScriptName: the value returned
    extractPc,     \* "idle" | "called" | "returned"
    args,          \* history variable: the arguments cmd was joined from
    filtered,      \* buildProcessTree: the argument processes
    allProcesses,  \* buildProcessTree: the argument allProcesses, Map<pid, descriptor>
    forest,        \* the tree nodes by pid, and the roots buildProcessTree returned
    flat,          \* what flattenTree returned
    treePc,        \* "idle" | "listed" | "built" | "flattened"
    loops,         \* the loops started through the exported functions, in order
    calls,         \* history variable: calls of the exported functions
    webPort,       \* MonitorOptions.webPort (Undefined when omitted)
    state,         \* web.ts:13  the list, and which Map object state.history refers to
    published,     \* history variable: what the last updateWebState call was given
    dockerOnly,    \* MonitorOptions.dockerOnly
    containerCache, \* docker.ts:676  the main pids of the containers last fetched
    lastFetch,     \* docker.ts:677
    options,       \* index.ts:106  what commander parsed (Undefined: main is not run)
    cliPc,         \* "idle" | "main" | "started" | "failed"
    exitCode,      \* the argument of process.exit (Undefined while the process runs)
    exportOnExit,  \* MonitorOptions.exportOnExit / TraceOptions.exportOnExit
    exported,      \* the content of the file written on exit (Undefined: none)
    processNames,  \* MonitorOptions.processNames (used where the listers apply the name filter)
    tracePc,       \* "idle" | "lookup" | "polling" | "sleeping" | "exited"
    tracePid,      \* TraceOptions.pid
    traceHistory,  \* monitor.ts:259 (Undefined before it is built)
    graphs,        \* what renderTraceGraphs was given (Undefined before cleanup)
    cmdLineCache,  \* process.ts:8   Map<pid, command line>
    lastCmdLineFetch, \* process.ts:9
    lookup         \* history variable: the last call of getWindowsCommandLines

\* the variables of the session
sessionVars == <<pc, isRunning, history, processes, now, interval, alertCpu, alertMemory,
                 activeAlerts, alertHistory, newAlerts, checkCalls, poll, submitted, ticks,
                 summary>>

\* the variables of a call of extractScriptName on its own
extractVars == <<cmdLine, scriptName, extractPc, args>>

\* the variables of a call of buildProcessTree and flattenTree on their own
treeVars == <<filtered, allProcesses, forest, flat, treePc>>

\* the variables of the module driven through its exported functions
apiVars == <<loops, calls>>

\* the variables of the dashboard
webVars == <<webPort, state, published>>

\* the variables of Docker mode
dockerVars == <<dockerOnly, containerCache, lastFetch>>

\* the variables of the program as launched from the command line
cliVars == <<options, cliPc, exitCode, exportOnExit, exported, processNames>>

\* the variables of startTrace
traceVars == <<tracePc, tracePid, traceHistory, graphs>>

\* the variables of the command-line resolver of Windows
cacheVars == <<cmdLineCache, lastCmdLineFetch, lookup>>

\* the variables no call of a function on its own touches
programVars == <<webVars, dockerVars, cliVars, traceVars, cacheVars>>

vars == <<sessionVars, extractVars, treeVars, apiVars, programVars>>

----------------------------------------------------------------------------
(* Bounds of the model *)

\* ticks of a session with freely chosen readings
MaxTicks == 2
\* samples recorded for one process in a long session
MaxSamples == 150

\* the process ids the lister can report, in the lister's order
Pids == {1, 2}
\* the process that stays listed for the whole of a long session
LongLived == CHOOSE p \in Pids : \A q \in Pids : p <= q

\* process.ts:137: bytes per MB
BytesPerMB == 1024 * 1024

\* readings the sample provider can return, [cpu percent, memory bytes]:
\* for each alert type one at the threshold of the model and one above it
Stat(c, m) == [cpu |-> c, memory |-> m]
Stats == {Stat(80, 600 * BytesPerMB), Stat(85, 500 * BytesPerMB), Stat(85, 600 * BytesPerMB)}

\* an optional value: undefined, or a value v as Some(v), read back as Val
Undefined == <<>>
Some(v) == <<v>>
Val(o) == o[1]

\* configurations: a threshold is a number or omitted
CpuThresholds == {Undefined, Some(80)}
MemThresholds == {Undefined, Some(500)}
\* sessions: [the time startMonitor is entered, the interval option]
Clock(start, ms) == [start |-> start, interval |-> ms]
Clocks == {Clock(0, 10000), Clock(0, 30000), Clock(5000, 30000), Clock(5000, 30001)}

----------------------------------------------------------------------------
(* Program constants *)

maxHistory == 100
ALERT_COOLDOWN == 30000

----------------------------------------------------------------------------
(* Helpers *)

Max(a, b) == IF a > b THEN a ELSE b

\* mutant: slice(0, n), which keeps the oldest entries
SliceLast_KeepFirst(s, n) ==
    IF Len(s) > n THEN SubSeq(s, 1, n) ELSE s

\* Array.prototype.slice(-n)
SliceLast(s, n) ==
    IF Len(s) > n THEN SubSeq(s, Len(s) - n + 1, Len(s)) ELSE s

\* Map.prototype.get: undefined when the key is absent
MapGet(m, k) == IF k \in DOMAIN m THEN Some(m[k]) ELSE Undefined

\* Map.prototype.set
MapSet(m, k, v) == [x \in DOMAIN m \cup {k} |-> IF x = k THEN v ELSE m[x]]

EmptyMap == [x \in {} |-> 0]

\* the pids of a set as the sequence the lister reports (ascending)
RECURSIVE SeqOfSet(_)
SeqOfSet(S) ==
    IF S = {} THEN <<>>
    ELSE LET m == CHOOSE x \in S : \A y \in S : x <= y
         IN  <<m>> \o SeqOfSet(S \ {m})

Range(s) == {s[i] : i \in 1..Len(s)}

Least(S) == CHOOSE x \in S : \A y \in S : x <= y
Greatest(S) == CHOOSE x \in S : \A y \in S : x >= y

----------------------------------------------------------------------------
(* process.ts: extractScriptName and formatScriptName.  A string is the    *)
(* sequence of its characters.                                             *)

UpperCase == <<"A", "B", "C", "D", "E", "F", "G", "H", "I", "J", "K", "L", "M",
               "N", "O", "P", "Q", "R", "S", "T", "U", "V", "W", "X", "Y", "Z">>
LowerCase == <<"a", "b", "c", "d", "e", "f", "g", "h", "i", "j", "k", "l", "m",
               "n", "o", "p", "q", "r", "s", "t", "u", "v", "w", "x", "y", "z">>
\* [A-Za-z]
Letters == Range(UpperCase) \cup Range(LowerCase)
\* \s, for the characters of the model
Whitespace == {" "}
Quotes == {"\"", "'"}
Separators == {"\\", "/"}

\* the `i` flag: letters are compared by their lower-case form
Fold(c) ==
    IF c \in Range(UpperCase)
    THEN LowerCase[CHOOSE i \in 1..Len(UpperCase) : UpperCase[i] = c]
    ELSE c

\* line 189, the alternatives of (?:py|pyw|...) in the order the regex
\* engine tries them
extensions ==
    << <<"p", "y">>, <<"p", "y", "w">>, <<"j", "s">>, <<"t", "s">>, <<"m", "j", "s">>,
       <<"c", "j", "s">>, <<"j", "s", "x">>, <<"t", "s", "x">>, <<"r", "b">>,
       <<"p", "h", "p">>, <<"p", "l">>, <<"s", "h">>, <<"p", "s", "1">>,
       <<"b", "a", "t">>, <<"c", "m", "d">> >>

\* the text w stands in s at position i
OccursAt(s, i, w) ==
    /\ i + Len(w) - 1 <= Len(s)
    /\ \A j \in 1..Len(w) : Fold(s[i + j - 1]) = Fold(w[j])

\* `[^excl]+` from position i: the length of the longest run it can take
RunLength(s, i, excl) ==
    LET stops == {j \in i..Len(s) : s[j] \in excl}
    IN  IF stops = {} THEN Len(s) - i + 1 ELSE Least(stops) - i

\* what a pattern demands at position j, after the extension: nothing, the
\* closing quote, or (?:\s|$|")
Follows(s, j, after) ==
    CASE after = "anything" -> TRUE
      [] after = "dquote" -> j <= Len(s) /\ s[j] = "\""
      [] after = "squote" -> j <= Len(s) /\ s[j] = "'"
      [] after = "boundary" -> j > Len(s) \/ s[j] \in Whitespace \/ s[j] = "\""

\* `[^excl]+\.(?:extensions)` and then `after`, matched from position i as
\* the regex engine backtracks: the longest run first, and for a run the
\* first alternative that lets the rest match.  The position of the last
\* character of the extension, 0 when there is no match.
ScriptEnd(s, i, excl, after) ==
    LET L == RunLength(s, i, excl)
        Fits(k, e) == /\ i + k <= Len(s)
                      /\ s[i + k] = "."
                      /\ OccursAt(s, i + k + 1, extensions[e])
                      /\ Follows(s, i + k + 1 + Len(extensions[e]), after)
        ks == {k \in 1..L : \E e \in 1..Len(extensions) : Fits(k, e)}
    IN  IF ks = {} THEN 0
        ELSE LET k == Greatest(ks)
                 e == Least({x \in 1..Len(extensions) : Fits(k, x)})
             IN  i + k + Len(extensions[e])

\* what a pattern starts with at position i: the number of characters it
\* takes before the run, -1 when the start does not match
LeadLength(s, i, lead) ==
    CASE lead = "dquote" -> IF s[i] = "\"" THEN 1 ELSE -1
      [] lead = "squote" -> IF s[i] = "'" THEN 1 ELSE -1
      [] lead = "drive" -> IF /\ i + 2 <= Len(s)
                              /\ s[i] \in Letters
                              /\ s[i + 1] = ":"
                              /\ s[i + 2] \in Separators
                           THEN 3 ELSE -1
      [] lead = "slash" -> IF s[i] = "/" THEN 1 ELSE -1
      [] lead = "none" -> 0

\* lines 192-201: double-quoted path, single-quoted path, Windows drive
\* path, Unix absolute path, bare script filename; captured: whether the
\* capture group holds the characters of the lead
scriptPatterns ==
    << [lead |-> "dquote", excl |-> {"\""}, after |-> "dquote", captured |-> FALSE],
       [lead |-> "squote", excl |-> {"'"}, after |-> "squote", captured |-> FALSE],
       [lead |-> "drive", excl |-> Whitespace \cup Quotes, after |-> "anything",
        captured |-> TRUE],
       [lead |-> "slash", excl |-> Whitespace \cup Quotes, after |-> "anything",
        captured |-> TRUE],
       [lead |-> "none", excl |-> Whitespace \cup Quotes \cup Separators,
        after |-> "boundary", captured |-> TRUE] >>

\* the capture group of a match of the pattern that starts at position i
MatchAt(s, i, pattern) ==
    LET n == LeadLength(s, i, pattern.lead)
        e == ScriptEnd(s, i + n, pattern.excl, pattern.after)
    IN  IF n < 0 THEN Undefined
        ELSE IF e = 0 THEN Undefined
        ELSE Some(SubSeq(s, IF pattern.captured THEN i ELSE i + n, e))

\* cmd.match(pattern)[1]: the leftmost match
Match(s, pattern) ==
    LET starts == {i \in 1..Len(s) : MatchAt(s, i, pattern) # Undefined}
    IN  IF starts = {} THEN Undefined ELSE MatchAt(s, Least(starts), pattern)

\* replace(/["']+$/, '')
StripQuotes(w) ==
    LET kept == {i \in 1..Len(w) : w[i] \notin Quotes}
    IN  IF kept = {} THEN <<>> ELSE SubSeq(w, 1, Greatest(kept))

\* lines 186-213: the first pattern that matches decides
ExtractScriptName(cmd) ==
    IF cmd = Undefined THEN Undefined
    ELSE IF Len(Val(cmd)) = 0 THEN Undefined
    ELSE LET hits == {p \in 1..Len(scriptPatterns) :
                         Match(Val(cmd), scriptPatterns[p]) # Undefined}
         IN  IF hits = {} THEN Undefined
             ELSE Some(StripQuotes(Val(Match(Val(cmd), scriptPatterns[Least(hits)]))))

\* lines 218-224: the tail of a path longer than maxLength, after "..."
FormatScriptName(scriptPath, maxLength) ==
    IF Len(scriptPath) <= maxLength THEN scriptPath
    ELSE <<".", ".", ".">> \o SliceLast(scriptPath, maxLength - 3)

----------------------------------------------------------------------------
(* process.ts: getProcessStats and getProcesses *)

\* getProcessStats: the provider's map, or {} when the pidusage call throws
GetProcessStats(pids, provider) ==
    IF Len(pids) = 0 THEN EmptyMap
    ELSE IF provider.failed THEN EmptyMap
    ELSE provider.stats

\* the ProcessInfo of one listed process: stat?.cpu ?? 0, stat?.memory ?? 0;
\* entry is what the tick's listing says of the process, its name and the
\* command line of line 122
ProcessInfoOf(pid, stats, entry) ==
    LET stat == MapGet(stats, pid)
        cpu == IF stat = Undefined THEN 0 ELSE Val(stat).cpu
        memory == IF stat = Undefined THEN 0 ELSE Val(stat).memory
    IN  [pid |-> pid, name |-> entry.name, cmd |-> entry.cmd,
         cpu |-> cpu, memory |-> memory, memoryMB |-> memory \div BytesPerMB]

\* getProcesses: lister.failed is psList throwing, lister.filtered the pids
\* left by the name filter, lister.listed their names and command lines
GetProcesses(lister, provider) ==
    IF lister.failed THEN <<>>
    ELSE IF Len(lister.filtered) = 0 THEN <<>>
    ELSE LET stats == GetProcessStats(lister.filtered, provider)
         IN  [i \in 1..Len(lister.filtered) |->
                 ProcessInfoOf(lister.filtered[i], stats, lister.listed[lister.filtered[i]])]

----------------------------------------------------------------------------
(* monitor.ts: the history update of one tick *)

\* lines 146-149: the script name if there is one, otherwise the process name
DisplayName(proc) ==
    LET script == ExtractScriptName(proc.cmd)
    IN  IF script # Undefined THEN FormatScriptName(Val(script), 59) ELSE proc.name

\* lines 151-160: the record of a process seen for the first time
NewHistory(proc) ==
    [pid |-> proc.pid, name |-> DisplayName(proc), cmd |-> proc.cmd,
     samples |-> 0, cpuHistory |-> <<>>, memoryHistory |-> <<>>,
     peakMemory |-> 0, peakCPU |-> 0]

\* lines 172-177: keep history bounded
BoundHistory(h) ==
    IF Len(h) > maxHistory THEN SliceLast(h, maxHistory) ELSE h

\* mutant: the memory window is never truncated
RecordSample_UnboundedMemory(hist, proc) ==
    [hist EXCEPT
        !.samples = @ + 1,
        !.cpuHistory = BoundHistory(Append(@, proc.cpu)),
        !.memoryHistory = Append(@, proc.memoryMB),
        !.peakMemory = Max(@, proc.memoryMB),
        !.peakCPU = Max(@, proc.cpu)]

\* mutant: the peaks are those of the windows
RecordSample_PeakOfWindow(hist, proc) ==
    LET cpus == BoundHistory(Append(hist.cpuHistory, proc.cpu))
        mems == BoundHistory(Append(hist.memoryHistory, proc.memoryMB))
    IN  [hist EXCEPT
            !.samples = @ + 1,
            !.cpuHistory = cpus,
            !.memoryHistory = mems,
            !.peakMemory = Greatest(Range(mems)),
            !.peakCPU = Greatest(Range(cpus))]

\* mutant: the counter is the length of the window
RecordSample_CountOfWindow(hist, proc) ==
    LET cpus == BoundHistory(Append(hist.cpuHistory, proc.cpu))
    IN  [hist EXCEPT
            !.samples = Len(cpus),
            !.cpuHistory = cpus,
            !.memoryHistory = BoundHistory(Append(@, proc.memoryMB)),
            !.peakMemory = Max(@, proc.memoryMB),
            !.peakCPU = Max(@, proc.cpu)]

\* lines 164-177 for one process
RecordSample(hist, proc) ==
    [hist EXCEPT
        !.samples = @ + 1,
        !.cpuHistory = BoundHistory(Append(@, proc.cpu)),
        !.memoryHistory = BoundHistory(Append(@, proc.memoryMB)),
        !.peakMemory = Max(@, proc.memoryMB),
        !.peakCPU = Max(@, proc.cpu)]

\* mutant: the Map is rebuilt from the processes of the tick
UpdateOne_ListedOnly(h, proc) ==
    LET hist == IF proc.pid \in DOMAIN h THEN h[proc.pid] ELSE NewHistory(proc)
    IN  MapSet(EmptyMap, proc.pid, RecordSample(hist, proc))

\* mutant: the identity is taken from every sighting
UpdateOne_IdentityRefreshed(h, proc) ==
    MapSet(h, proc.pid,
           RecordSample([IF proc.pid \in DOMAIN h THEN h[proc.pid] ELSE NewHistory(proc)
                            EXCEPT !.name = DisplayName(proc), !.cmd = proc.cmd],
                        proc))

\* lines 142-177 for one process
UpdateOne(h, proc) ==
    LET hist == IF proc.pid \in DOMAIN h THEN h[proc.pid] ELSE NewHistory(proc)
    IN  MapSet(h, proc.pid, RecordSample(hist, proc))

\* lines 141-178: for (const proc of processes)
RECURSIVE UpdateHistory(_, _)
UpdateHistory(h, procs) ==
    IF Len(procs) = 0 THEN h
    ELSE UpdateHistory(UpdateOne(h, Head(procs)), Tail(procs))

----------------------------------------------------------------------------
(* alerts.ts: checkAlerts *)

\* mutant: one key per process, shared by the types
AlertKey_PidOnly(type, pid) == <<"alert", pid>>

\* alertKey: `cpu-${pid}` / `memory-${pid}`
AlertKey(type, pid) == <<type, pid>>

\* mutant: >= in place of >
Breaches_AtOrAbove(value, threshold) == threshold # Undefined /\ value >= Val(threshold)

\* lines 40 and 60: the threshold is configured and strictly exceeded
Breaches(value, threshold) == threshold # Undefined /\ value > Val(threshold)

\* lines 44 and 64: !lastAlert || now - lastAlert > ALERT_COOLDOWN
\* (!lastAlert holds for undefined and for the number 0)
CooldownOver(lastAlert, t) ==
    \/ lastAlert = Undefined
    \/ Val(lastAlert) = 0
    \/ t - Val(lastAlert) > ALERT_COOLDOWN

\* mutant: the alert is returned and recorded as fired, but not logged
CheckType_NotLogged(st, proc, type, value, threshold, t) ==
    IF Breaches(value, threshold)
       /\ CooldownOver(MapGet(st.activeAlerts, AlertKey(type, proc.pid)), t)
    THEN LET alert == [timestamp |-> t, pid |-> proc.pid, type |-> type,
                       value |-> value, threshold |-> Val(threshold)]
         IN  [newAlerts |-> Append(st.newAlerts, alert),
              alertHistory |-> st.alertHistory,
              activeAlerts |-> MapSet(st.activeAlerts, AlertKey(type, proc.pid), t)]
    ELSE st

\* lines 40-57 (type "cpu") and 60-77 (type "memory") for one process;
\* st = [newAlerts, alertHistory, activeAlerts]
CheckType(st, proc, type, value, threshold, t) ==
    IF Breaches(value, threshold)
       /\ CooldownOver(MapGet(st.activeAlerts, AlertKey(type, proc.pid)), t)
    THEN LET alert == [timestamp |-> t, pid |-> proc.pid, type |-> type,
                       value |-> value, threshold |-> Val(threshold)]
         IN  [newAlerts |-> Append(st.newAlerts, alert),
              alertHistory |-> Append(st.alertHistory, alert),
              activeAlerts |-> MapSet(st.activeAlerts, AlertKey(type, proc.pid), t)]
    ELSE st

\* mutant: the memory check reads the CPU threshold
CheckProcess_CpuThresholdTwice(st, proc, config, t) ==
    LET afterCpu == CheckType(st, proc, "cpu", proc.cpu, config.cpuThreshold, t)
    IN  CheckType(afterCpu, proc, "memory", proc.memoryMB, config.cpuThreshold, t)

\* lines 37-77: the body of the loop, the CPU check and then the memory check
CheckProcess(st, proc, config, t) ==
    LET afterCpu == CheckType(st, proc, "cpu", proc.cpu, config.cpuThreshold, t)
    IN  CheckType(afterCpu, proc, "memory", proc.memoryMB, config.memoryThreshold, t)

\* lines 36-78: for (const proc of processes)
RECURSIVE CheckLoop(_, _, _, _)
CheckLoop(st, procs, config, t) ==
    IF Len(procs) = 0 THEN st
    ELSE CheckLoop(CheckProcess(st, Head(procs), config, t), Tail(procs), config, t)

\* checkAlerts(processes, config, processNames) at time t, on the module's
\* alertHistory and activeAlerts
CheckAlerts(procs, config, log, active, t) ==
    CheckLoop([newAlerts |-> <<>>, alertHistory |-> log, activeAlerts |-> active],
              procs, config, t)

\* monitor.ts lines 77-86: the AlertConfig built from the options
AlertConfig(cpu, memory) == [cpuThreshold |-> cpu, memoryThreshold |-> memory]

\* monitor.ts line 181
AlertsConfigured(cpu, memory) == cpu # Undefined \/ memory # Undefined

----------------------------------------------------------------------------
(* The session *)

TypeOK ==
    /\ pc \in {"idle", "polling", "sleeping", "exited"}
    /\ isRunning \in BOOLEAN
    /\ DOMAIN history \subseteq Pids
    /\ now \in Nat
    /\ checkCalls \in Nat
    /\ ticks \in Nat

\* the names and command lines of the processes of a session whose
\* readings are what varies: a script run by an interpreter, and a process
\* of which no command line is known
ProcessName == <<"n", "o", "d", "e">>
Listing ==
    [p \in Pids |->
        [name |-> ProcessName,
         cmd |-> IF p = LongLived
                 THEN Some(ProcessName \o <<" ", "/", "a", ".", "j", "s">>)
                 ELSE Undefined]]

NoPoll == [lister |-> [failed |-> FALSE, filtered |-> <<>>, listed |-> Listing],
           provider |-> [failed |-> FALSE, stats |-> EmptyMap],
           checked |-> FALSE,
           daemon |-> [failed |-> TRUE, containers |-> <<>>]]

\* the nodes and the roots before any process is linked
EmptyForest == [nodes |-> EmptyMap, roots |-> <<>>]

\* no call of buildProcessTree on its own is made
TreeIdle ==
    /\ filtered = <<>>
    /\ allProcesses = EmptyMap
    /\ forest = EmptyForest
    /\ flat = <<>>
    /\ treePc = "idle"

\* no exported function is called by an embedding program
ApiIdle == loops = <<>> /\ calls = 0

\* no call of extractScriptName on its own is made
ExtractIdle ==
    cmdLine = Undefined /\ scriptName = Undefined /\ extractPc = "idle" /\ args = <<>>

\* web.ts lines 13-18: the state before any publication; state.history is
\* the Map created there ("initial") or the Map of the session ("session")
InitialState == [processes |-> <<>>, history |-> "initial"]

\* no dashboard is started
WebIdle == webPort = Undefined /\ state = InitialState /\ published = Undefined

\* docker.ts lines 676-677; Docker mode is not asked for
DockerIdle == dockerOnly = FALSE /\ containerCache = <<>> /\ lastFetch = 0

\* main is not run: the session is started with its options already parsed,
\* and nothing is exported on exit
CliIdle ==
    /\ options = Undefined
    /\ cliPc = "idle"
    /\ exitCode = Undefined
    /\ exportOnExit = FALSE
    /\ exported = Undefined
    /\ processNames = <<>>

\* no call of startTrace is made
TraceIdle ==
    tracePc = "idle" /\ tracePid = 0 /\ traceHistory = Undefined /\ graphs = Undefined

\* process.ts lines 8-9; no call of getWindowsCommandLines on its own is made
NoLookup == [n |-> 0]
CacheIdle == cmdLineCache = EmptyMap /\ lastCmdLineFetch = 0 /\ lookup = NoLookup

ProgramIdle == WebIdle /\ DockerIdle /\ CliIdle /\ TraceIdle /\ CacheIdle

\* startMonitor up to the first await of the loop
InitWith(cpus, mems, clocks) ==
    /\ pc = "polling"
    /\ isRunning = TRUE
    /\ history = EmptyMap
    /\ processes = <<>>
    /\ \E c \in clocks : now = c.start /\ interval = c.interval
    /\ alertCpu \in cpus
    /\ alertMemory \in mems
    /\ activeAlerts = EmptyMap
    /\ alertHistory = <<>>
    /\ newAlerts = <<>>
    /\ checkCalls = 0
    /\ poll = NoPoll
    /\ submitted = [p \in Pids |-> <<>>]
    /\ ticks = 0
    /\ summary = Undefined
    /\ ExtractIdle
    /\ TreeIdle
    /\ ApiIdle
    /\ DockerIdle
    /\ CliIdle
    /\ TraceIdle
    /\ CacheIdle

Init == InitWith(CpuThresholds, MemThresholds, Clocks) /\ WebIdle

\* every sample of the tick, appended to the record of what was submitted
RECURSIVE Submit(_, _)
Submit(sub, procs) ==
    IF Len(procs) = 0 THEN sub
    ELSE Submit([sub EXCEPT ![Head(procs).pid] =
                    Append(@, [cpu |-> Head(procs).cpu, memoryMB |-> Head(procs).memoryMB])],
                Tail(procs))

\* docker.ts line 678
CACHE_TTL == 5000

\* docker.ts lines 695-753, getDockerContainers at time t: the containers
\* returned, and the cache and the time of the fetch it leaves.  daemon is
\* what `docker ps` and `docker inspect` answer: daemon.failed when the
\* command throws, daemon.containers the main pids of the running containers
GetDockerContainers(cache, last, t, daemon) ==
    IF t - last < CACHE_TTL /\ Len(cache) > 0
    THEN [containers |-> cache, cache |-> cache, lastFetch |-> last]
    ELSE IF daemon.failed
    THEN [containers |-> <<>>, cache |-> cache, lastFetch |-> last]
    ELSE [containers |-> daemon.containers, cache |-> daemon.containers, lastFetch |-> t]

\* the daemon of a session that does not ask it anything
NoDaemon == [failed |-> TRUE, containers |-> <<>>]

\* monitor.ts lines 135-137: the processes whose pid is a container's
DockerFilter(procs, containers) ==
    SelectSeq(procs, LAMBDA proc : proc.pid \in Range(containers))

\* mutant: the list of the previous tick stays published
UpdateWebState_HistoryOnly(st, procs) == [st EXCEPT !.history = "session"]

\* web.ts lines 23-33, updateWebState(processes, history, ...): the list is
\* stored, and state.history is made to refer to the Map of the session
UpdateWebState(st, procs) == [processes |-> procs, history |-> "session"]

\* One tick, lines 126-206, from the completion of `await getProcesses` to
\* the start of `await sleep`: the Docker filter, the history update, the
\* alert check, the publication to the dashboard.
Poll(lister, provider, daemon) ==
    /\ pc = "polling"
    /\ LET docker == GetDockerContainers(containerCache, lastFetch, now, daemon)
           listed == GetProcesses(lister, provider)
           procs == IF dockerOnly THEN DockerFilter(listed, docker.containers) ELSE listed
           check == AlertsConfigured(alertCpu, alertMemory)
           st == CheckAlerts(procs, AlertConfig(alertCpu, alertMemory),
                             alertHistory, activeAlerts, now)
       IN  /\ processes' = procs
           /\ history' = UpdateHistory(history, procs)
           /\ submitted' = Submit(submitted, procs)
           /\ IF dockerOnly
              THEN containerCache' = docker.cache /\ lastFetch' = docker.lastFetch
              ELSE UNCHANGED <<containerCache, lastFetch>>
           /\ IF check
              THEN /\ alertHistory' = st.alertHistory
                   /\ activeAlerts' = st.activeAlerts
                   /\ newAlerts' = st.newAlerts
                   /\ checkCalls' = checkCalls + 1
              ELSE UNCHANGED <<alertHistory, activeAlerts, newAlerts, checkCalls>>
           /\ IF webPort # Undefined
              THEN /\ state' = UpdateWebState(state, procs)
                   /\ published' = Some([processes |-> procs,
                                         history |-> UpdateHistory(history, procs)])
              ELSE UNCHANGED <<state, published>>
           /\ poll' = [lister |-> lister, provider |-> provider, checked |-> check,
                       daemon |-> daemon]
    /\ ticks' = ticks + 1
    /\ pc' = "sleeping"
    /\ UNCHANGED <<isRunning, now, interval, alertCpu, alertMemory, summary>>
    /\ UNCHANGED <<webPort, dockerOnly, cliVars, traceVars, cacheVars>>
    /\ UNCHANGED <<extractVars, treeVars, apiVars>>

\* a tick of a session without Docker mode, which does not ask the daemon
Tick(lister, provider) == Poll(lister, provider, NoDaemon)

\* what the lister can report: it throws, or the filtered pids in its order
Listers ==
    {[failed |-> TRUE, filtered |-> <<>>, listed |-> Listing]}
    \cup {[failed |-> FALSE, filtered |-> SeqOfSet(S), listed |-> Listing] : S \in SUBSET Pids}

\* what the provider can do for the pids asked: throw, or return readings
\* for some of them
StatMaps(S) == UNION {[T -> Stats] : T \in SUBSET S}
Providers(S) ==
    {[failed |-> TRUE, stats |-> EmptyMap]}
    \cup {[failed |-> FALSE, stats |-> m] : m \in StatMaps(S)}

\* the provider is called only when the filtered list is not empty
ProvidersFor(lister) ==
    IF lister.failed \/ Len(lister.filtered) = 0
    THEN {[failed |-> FALSE, stats |-> EmptyMap]}
    ELSE Providers(Range(lister.filtered))

\* a tick of a session whose readings are chosen freely
TickAny ==
    /\ ticks < MaxTicks
    /\ \E lister \in Listers : \E provider \in ProvidersFor(lister) :
          Tick(lister, provider)

\* `await sleep(interval)` resolves and the loop starts the next tick
Wake ==
    /\ pc = "sleeping"
    /\ isRunning
    /\ now' = now + interval
    /\ pc' = "polling"
    /\ UNCHANGED <<isRunning, history, processes, interval, alertCpu, alertMemory,
                   activeAlerts, alertHistory, newAlerts, checkCalls, poll, submitted, ticks,
                   summary>>
    /\ UNCHANGED <<extractVars, treeVars, apiVars, programVars>>

\* display.ts lines 183-199: the row of one record (the averages, which are
\* fractions, are left out)
SummaryRow(pid, hist) ==
    [pid |-> pid, name |-> SubSeq(hist.name, 1, IF Len(hist.name) < 46 THEN Len(hist.name) ELSE 46),
     samples |-> hist.samples, peakCPU |-> hist.peakCPU, peakMemory |-> hist.peakMemory]

\* display.ts lines 156-202, renderSummary: the rows printed, one for each
\* entry of the Map
RenderSummary(h) == {SummaryRow(p, h[p]) : p \in DOMAIN h}

\* export.ts lines 416-478, exportToJSON: the entry written for one record
\* (the averages, which are fractions, are left out; the readings are whole
\* numbers, which the rounding to two decimals leaves as they are)
ExportProcess(pid, hist) ==
    [pid |-> pid, name |-> hist.name, cmd |-> hist.cmd, samples |-> hist.samples,
     peakCPU |-> hist.peakCPU, peakMemoryMB |-> hist.peakMemory,
     cpuHistory |-> hist.cpuHistory, memoryHistory |-> hist.memoryHistory]

ExportToJSON(h) == {ExportProcess(p, h[p]) : p \in DOMAIN h}

\* mutant: the file is written whatever the option
Exports_Always(configured) == TRUE

\* lines 111 and 284: if (exportOnExit)
Exports(configured) == configured

\* SIGINT/SIGTERM: cleanup, lines 95-116, prints the summary, writes the
\* export if it is configured and ends the process
Interrupt ==
    /\ pc \in {"polling", "sleeping"}
    /\ isRunning' = FALSE
    /\ summary' = Some(RenderSummary(history))
    /\ exported' = IF Exports(exportOnExit) THEN Some(ExportToJSON(history)) ELSE exported
    /\ exitCode' = Some(0)
    /\ pc' = "exited"
    /\ UNCHANGED <<history, processes, now, interval, alertCpu, alertMemory,
                   activeAlerts, alertHistory, newAlerts, checkCalls, poll, submitted, ticks>>
    /\ UNCHANGED <<options, cliPc, exportOnExit, processNames>>
    /\ UNCHANGED <<webVars, dockerVars, traceVars, cacheVars>>
    /\ UNCHANGED <<extractVars, treeVars, apiVars>>

Next == TickAny \/ Wake \/ Interrupt

Spec == Init /\ [][Next]_vars

----------------------------------------------------------------------------
(* A long session: process LongLived is listed in every tick, the others   *)
(* come and go; the provider answers for every listed process, and the     *)
(* k-th reading of a process is distinct from all its other readings, so   *)
(* that the content of a window tells which samples it retains: the CPU    *)
(* readings fall, so that the highest is the first to leave the window,    *)
(* and the memory readings rise.                                           *)

RampStat(pid, k) == Stat(200 * pid + MaxSamples - k, k * BytesPerMB)

LongListers ==
    {[failed |-> FALSE, filtered |-> SeqOfSet(S \cup {LongLived}), listed |-> Listing] :
        S \in SUBSET Pids}

RampProvider(lister) ==
    [failed |-> FALSE,
     stats |-> [p \in Range(lister.filtered) |-> RampStat(p, Len(submitted[p]) + 1)]]

TickLong ==
    /\ Len(submitted[LongLived]) < MaxSamples
    /\ \E lister \in LongListers : Tick(lister, RampProvider(lister))

\* no alert thresholds, the default interval of index.ts
InitLong == InitWith({Undefined}, {Undefined}, {Clock(5000, 2000)}) /\ WebIdle

NextLong == TickLong \/ Wake \/ Interrupt

SpecLong == InitLong /\ [][NextLong]_vars

----------------------------------------------------------------------------
(* A session in which the listing varies: what a tick says of a process,   *)
(* its command line in particular, is chosen anew in every tick (the       *)
(* Windows command-line cache is refreshed, a pid is reused).              *)

\* ticks of a session with a freely chosen listing
MaxSightings == 3

\* a script path longer than the 59 characters a display name may have
LongScript == <<"/">> \o [i \in 1..60 |-> "a"] \o <<".", "p", "y">>

\* the command lines a tick can report for a process
SightedCmds ==
    {Undefined,
     Some(ProcessName \o <<" ", "b", ".", "j", "s">>),
     Some(ProcessName \o <<" ">> \o LongScript)}

SightingListers ==
    {[failed |-> FALSE, filtered |-> SeqOfSet(S), listed |-> l] :
        S \in SUBSET Pids, l \in [Pids -> [name : {ProcessName}, cmd : SightedCmds]]}

\* the provider answers for every listed process; the CPU reading is the
\* number of the tick, so that the samples of a record tell its sightings
SightingProvider(lister) ==
    [failed |-> FALSE,
     stats |-> [p \in Range(lister.filtered) |-> Stat(ticks + 1, BytesPerMB)]]

TickSighting ==
    /\ ticks < MaxSightings
    /\ \E lister \in SightingListers :
          /\ \A p \in Pids \ Range(lister.filtered) : lister.listed[p] = Listing[p]
          /\ Tick(lister, SightingProvider(lister))

NextSighting == TickSighting \/ Wake \/ Interrupt

SpecSighting == InitLong /\ [][NextSighting]_vars

----------------------------------------------------------------------------
(* A session with the dashboard: startMonitor is given a webPort, and a    *)
(* request can be served at every await point of the loop.                 *)

\* index.ts line 162: the port of --web without a value
DefaultPort == 3000

\* what a request handler reads: state.processes, and the Map state.history
\* refers to, as it is when the request is served
Snapshot ==
    [processes |-> state.processes,
     history |-> IF state.history = "session" THEN history ELSE EmptyMap]

\* web.ts lines 245-259, generateJSON: the processes of the response (the
\* readings are whole numbers, which the rounding leaves as they are)
GenerateJSON(snapshot) ==
    [i \in 1..Len(snapshot.processes) |->
        LET proc == snapshot.processes[i]
            hist == MapGet(snapshot.history, proc.pid)
        IN  [pid |-> proc.pid,
             name |-> IF hist # Undefined /\ Len(Val(hist).name) > 0
                      THEN Val(hist).name ELSE proc.name,
             cmd |-> proc.cmd, cpu |-> proc.cpu, memoryMB |-> proc.memoryMB]]

InitWeb ==
    /\ InitWith({Undefined}, {Undefined}, {Clock(5000, 2000)})
    /\ webPort = Some(DefaultPort)
    /\ state = InitialState
    /\ published = Undefined

SpecWeb == InitWeb /\ [][NextSighting]_vars

----------------------------------------------------------------------------
(* extractScriptName called on its own, on command lines joined from the   *)
(* arguments below with single spaces.                                     *)

\* arguments of a command line
MaxArgs == 3

\* a quoted interpreter path
QuotedInterpreter ==
    <<"\"", "C", ":", "\\", "P", "y", "t", "h", "o", "n", "3", "9", "\\",
      "p", "y", "t", "h", "o", "n", ".", "e", "x", "e", "\"">>
\* a script by its Windows path
DriveScript ==
    <<"K", ":", "\\", "a", "p", "p", "\\", "m", "a", "i", "n", ".", "p",
      "y">>
\* an option and its value
PortOption ==
    <<"-", "-", "p", "o", "r", "t", " ", "8", "0", "8", "0">>
\* the interpreter of a virtual environment
VenvInterpreter ==
    <<"C", ":", "\\", "p", "r", "o", "j", "\\", ".", "v", "e", "n", "v",
      "\\", "S", "c", "r", "i", "p", "t", "s", "\\", "p", "y", "t", "h",
      "o", "n", ".", "e", "x", "e">>
\* a script by its filename
BareScript ==
    <<"m", "a", "i", "n", ".", "p", "y">>
\* a script by its Unix path
UnixScript ==
    <<"/", "a", "p", "p", "/", "r", "u", "n", ".", "p", "y">>
\* a windowed Python script by its Windows path
DriveScriptPyw ==
    <<"K", ":", "\\", "a", "p", "p", "\\", "g", "u", "i", ".", "p", "y",
      "w">>
\* a quoted script filename
QuotedBareScript ==
    <<"\"", "j", "o", "b", ".", "p", "y", "\"">>
\* a script by a relative path
RelativeScript ==
    <<"s", "r", "c", "/", "c", "l", "i", ".", "j", "s">>

Arguments ==
    {QuotedInterpreter, DriveScript, PortOption, VenvInterpreter,
     BareScript, UnixScript, DriveScriptPyw, QuotedBareScript,
     RelativeScript}

\* the arguments joined by single spaces
RECURSIVE Join(_)
Join(as) ==
    IF Len(as) = 0 THEN <<>>
    ELSE IF Len(as) = 1 THEN as[1]
    ELSE as[1] \o <<" ">> \o Join(Tail(as))

ArgLists == UNION {[1..n -> Arguments] : n \in 1..MaxArgs}

\* no session is started
NoSession ==
    /\ pc = "idle"
    /\ isRunning = FALSE
    /\ history = EmptyMap
    /\ processes = <<>>
    /\ now = 0
    /\ interval = 0
    /\ alertCpu = Undefined
    /\ alertMemory = Undefined
    /\ activeAlerts = EmptyMap
    /\ alertHistory = <<>>
    /\ newAlerts = <<>>
    /\ checkCalls = 0
    /\ poll = NoPoll
    /\ submitted = [p \in Pids |-> <<>>]
    /\ ticks = 0
    /\ summary = Undefined

\* the call: no command line, the empty one, or one joined from arguments
InitExtract ==
    /\ NoSession
    /\ \/ args = <<>> /\ cmdLine \in {Undefined, Some(<<>>)}
       \/ args \in ArgLists /\ cmdLine = Some(Join(args))
    /\ scriptName = Undefined
    /\ extractPc = "called"
    /\ TreeIdle
    /\ ApiIdle
    /\ ProgramIdle

Extract ==
    /\ extractPc = "called"
    /\ scriptName' = ExtractScriptName(cmdLine)
    /\ extractPc' = "returned"
    /\ UNCHANGED <<cmdLine, args>>
    /\ UNCHANGED <<sessionVars, treeVars, apiVars, programVars>>

NextExtract == Extract

SpecExtract == InitExtract /\ [][NextExtract]_vars

----------------------------------------------------------------------------
(* tree.ts: buildProcessTree and flattenTree.  A node is held by its pid:  *)
(* nodes is the Map of line 283, and a list of nodes (roots, children,     *)
(* the flattened result) is the list of their pids, so that a node changed *)
(* through one list is changed in all of them, as the objects are.         *)

\* lines 292-302: the node of a filtered process; its parent id is looked up
\* in allProcesses and is 0 when the process is not there
NewNode(proc, allProcessMap) ==
    [pid |-> proc.pid,
     ppid |-> IF MapGet(allProcessMap, proc.pid) = Undefined THEN 0
              ELSE allProcessMap[proc.pid].ppid,
     cpu |-> proc.cpu, children |-> <<>>, depth |-> 0]

\* lines 286-304: for (const proc of processes)
RECURSIVE CreateNodes(_, _, _)
CreateNodes(nodes, procs, allProcessMap) ==
    IF Len(procs) = 0 THEN nodes
    ELSE CreateNodes(MapSet(nodes, Head(procs).pid, NewNode(Head(procs), allProcessMap)),
                     Tail(procs), allProcessMap)

\* mutant: a process whose parent id is 0 is the only kind of root
LinkNode_RootOnlyWithoutParentId(st, pid) ==
    LET node == st.nodes[pid]
        parent == MapGet(st.nodes, node.ppid)
    IN  IF parent # Undefined
        THEN [st EXCEPT !.nodes = [@ EXCEPT ![node.ppid].children = Append(@, pid),
                                            ![pid].depth = Val(parent).depth + 1]]
        ELSE IF node.ppid = 0 THEN [st EXCEPT !.roots = Append(@, pid)]
        ELSE st

\* lines 308-315 for one node; st = [nodes, roots]
LinkNode(st, pid) ==
    LET node == st.nodes[pid]
        parent == MapGet(st.nodes, node.ppid)
    IN  IF parent # Undefined
        THEN [st EXCEPT !.nodes = [@ EXCEPT ![node.ppid].children = Append(@, pid),
                                            ![pid].depth = Val(parent).depth + 1]]
        ELSE [st EXCEPT !.roots = Append(@, pid)]

\* lines 307-316: for (const node of nodes.values()), in insertion order
RECURSIVE LinkLoop(_, _)
LinkLoop(st, order) ==
    IF Len(order) = 0 THEN st
    ELSE LinkLoop(LinkNode(st, Head(order)), Tail(order))

\* mutant: a node goes before the nodes of equal CPU already placed
InsertByCpu_BeforeEqual(sorted, pid, nodes) ==
    LET k == Cardinality({i \in 1..Len(sorted) : nodes[sorted[i]].cpu > nodes[pid].cpu})
    IN  SubSeq(sorted, 1, k) \o <<pid>> \o SubSeq(sorted, k + 1, Len(sorted))

\* the place of a node in a list sorted by (a, b) => b.cpu - a.cpu: after
\* the nodes that do not compare greater than it
InsertByCpu(sorted, pid, nodes) ==
    LET k == Cardinality({i \in 1..Len(sorted) : nodes[sorted[i]].cpu >= nodes[pid].cpu})
    IN  SubSeq(sorted, 1, k) \o <<pid>> \o SubSeq(sorted, k + 1, Len(sorted))

\* lines 320 and 331: Array.prototype.sort, which is stable
RECURSIVE SortByCpu(_, _)
SortByCpu(list, nodes) ==
    IF Len(list) = 0 THEN <<>>
    ELSE InsertByCpu(SortByCpu(SubSeq(list, 1, Len(list) - 1), nodes), list[Len(list)], nodes)

\* lines 319-324: sortChildren(node), and the loop over a list of nodes
RECURSIVE SortChildren(_, _)
RECURSIVE SortEach(_, _)
SortChildren(nodes, pid) ==
    LET sorted == SortByCpu(nodes[pid].children, nodes)
    IN  SortEach([nodes EXCEPT ![pid].children = sorted], sorted)

SortEach(nodes, list) ==
    IF Len(list) = 0 THEN nodes
    ELSE SortEach(SortChildren(nodes, Head(list)), Tail(list))

\* lines 266-334
BuildProcessTree(procs, allProcessMap) ==
    LET created == CreateNodes(EmptyMap, procs, allProcessMap)
        linked == LinkLoop([nodes |-> created, roots |-> <<>>],
                           [i \in 1..Len(procs) |-> procs[i].pid])
        sorted == SortEach(linked.nodes, linked.roots)
    IN  [nodes |-> sorted, roots |-> SortByCpu(linked.roots, sorted)]

\* mutant: the depth a node has from buildProcessTree is kept
Visit_DepthKept(st, pid, depth) ==
    [nodes |-> st.nodes, result |-> Append(st.result, pid)]

\* lines 343-344; st = [nodes, result]
Visit(st, pid, depth) ==
    [nodes |-> [st.nodes EXCEPT ![pid].depth = depth], result |-> Append(st.result, pid)]

\* lines 342-348: traverse(node, depth), and the loop over a list of nodes
RECURSIVE Traverse(_, _, _)
RECURSIVE TraverseEach(_, _, _)
Traverse(st, pid, depth) ==
    TraverseEach(Visit(st, pid, depth), st.nodes[pid].children, depth + 1)

TraverseEach(st, list, depth) ==
    IF Len(list) = 0 THEN st
    ELSE TraverseEach(Traverse(st, Head(list), depth), Tail(list), depth)

\* lines 339-355: the result, and the nodes with the depths it assigned
FlattenTree(nodes, roots) ==
    TraverseEach([nodes |-> nodes, result |-> <<>>], roots, 0)

----------------------------------------------------------------------------
(* buildProcessTree and flattenTree called on their own, as renderTreeView *)
(* calls them.  The pid of a filtered process is its place in the listing; *)
(* the parent ids decide which of a parent and its child is listed first.  *)

\* filtered processes of a listing
MaxNodes == 4

\* the pid of a process that is not in the filtered set
Outsider(n) == n + 1

\* how CPU use is spread over the listing
CpuProfiles == {"equal", "rising", "falling", "mixed"}
CpuOf(profile, pid, n) ==
    CASE profile = "equal" -> 10
      [] profile = "rising" -> 10 * pid
      [] profile = "falling" -> 10 * (n + 1 - pid)
      [] profile = "mixed" -> 10 * (1 + (pid % 2))

\* a process is missing from allProcesses, or has any parent id: a
\* filtered process (itself included) or a process that is not filtered
Descriptors(n) == {Undefined} \cup {Some([ppid |-> q]) : q \in 1..Outsider(n)}

InitTree ==
    /\ NoSession
    /\ ExtractIdle
    /\ \E n \in 0..MaxNodes : \E profile \in CpuProfiles : \E d \in [1..n -> Descriptors(n)] :
          /\ filtered = [i \in 1..n |-> [pid |-> i, cpu |-> CpuOf(profile, i, n)]]
          /\ allProcesses = [i \in {j \in 1..n : d[j] # Undefined} |-> Val(d[i])]
    /\ forest = EmptyForest
    /\ flat = <<>>
    /\ treePc = "listed"
    /\ ApiIdle
    /\ ProgramIdle

Build ==
    /\ treePc = "listed"
    /\ forest' = BuildProcessTree(filtered, allProcesses)
    /\ treePc' = "built"
    /\ UNCHANGED <<filtered, allProcesses, flat>>
    /\ UNCHANGED <<sessionVars, extractVars, apiVars, programVars>>

Flatten ==
    /\ treePc = "built"
    /\ LET flattened == FlattenTree(forest.nodes, forest.roots)
       IN  /\ forest' = [forest EXCEPT !.nodes = flattened.nodes]
           /\ flat' = flattened.result
    /\ treePc' = "flattened"
    /\ UNCHANGED <<filtered, allProcesses>>
    /\ UNCHANGED <<sessionVars, extractVars, apiVars, programVars>>

NextTree == Build \/ Flatten

SpecTree == InitTree /\ [][NextTree]_vars

----------------------------------------------------------------------------
(* monitor.ts driven through its exported functions startMonitor,          *)
(* stopMonitor and startTrace, called in any order at any await point.     *)
(* Every call of startMonitor or startTrace runs a loop of its own; all    *)
(* loops read the one module variable isRunning, and the monitor loops     *)
(* write the one module variable history.                                  *)

\* calls of the exported functions
MaxCalls == 3
\* ticks of the loops of a driven module, all loops together
MaxLoopTicks == 3

\* a loop: "listing" is startTrace at `await psList()` (line 242), "polling"
\* a tick in flight, "sleeping" `await sleep(interval)`, "returned" the loop
\* left because isRunning was false
Loop(kind, at) == [kind |-> kind, pc |-> at, samples |-> 0]

Exited == \E i \in 1..Len(loops) : loops[i].pc = "exited"

\* process.exit: nothing runs any more
AllExited == [i \in 1..Len(loops) |-> [loops[i] EXCEPT !.pc = "exited"]]

InitApi ==
    /\ NoSession
    /\ ExtractIdle
    /\ TreeIdle
    /\ ApiIdle
    /\ ProgramIdle

\* lines 49-131: startMonitor up to the first await of its loop
CallStartMonitor ==
    /\ ~Exited
    /\ calls < MaxCalls
    /\ isRunning' = TRUE
    /\ history' = EmptyMap
    /\ loops' = Append(loops, Loop("monitor", "polling"))
    /\ calls' = calls + 1
    /\ UNCHANGED <<pc, processes, now, interval, alertCpu, alertMemory, activeAlerts,
                   alertHistory, newAlerts, checkCalls, poll, submitted, ticks, summary>>
    /\ UNCHANGED <<extractVars, treeVars, programVars>>

\* lines 221-223
CallStopMonitor ==
    /\ ~Exited
    /\ calls < MaxCalls
    /\ isRunning' = FALSE
    /\ calls' = calls + 1
    /\ UNCHANGED <<pc, history, processes, now, interval, alertCpu, alertMemory, activeAlerts,
                   alertHistory, newAlerts, checkCalls, poll, submitted, ticks, summary>>
    /\ UNCHANGED <<extractVars, treeVars, loops, programVars>>

\* lines 235-242: startTrace up to `await psList()`
CallStartTrace ==
    /\ ~Exited
    /\ calls < MaxCalls
    /\ isRunning' = TRUE
    /\ loops' = Append(loops, Loop("trace", "listing"))
    /\ calls' = calls + 1
    /\ UNCHANGED <<pc, history, processes, now, interval, alertCpu, alertMemory, activeAlerts,
                   alertHistory, newAlerts, checkCalls, poll, submitted, ticks, summary>>
    /\ UNCHANGED <<extractVars, treeVars, programVars>>

\* lines 243-300: the traced process is found and the loop is entered, or
\* left at once when isRunning is false; not found, the process exits
TraceListed(i) ==
    /\ loops[i].pc = "listing"
    /\ \E found \in BOOLEAN :
          loops' = IF ~found THEN AllExited
                   ELSE [loops EXCEPT ![i].pc = IF isRunning THEN "polling" ELSE "returned"]
    /\ UNCHANGED <<sessionVars, extractVars, treeVars, calls, programVars>>

\* the listing and the readings of a tick of a monitor loop: one process,
\* listed and answered for in every tick
LoopLister == [failed |-> FALSE, filtered |-> <<LongLived>>, listed |-> Listing]

\* lines 126-206 of one monitor loop, without alert options
MonitorTick(i) ==
    /\ loops[i].kind = "monitor"
    /\ loops[i].pc = "polling"
    /\ ticks < MaxLoopTicks
    /\ LET procs == GetProcesses(LoopLister, RampProvider(LoopLister))
       IN  /\ history' = UpdateHistory(history, procs)
           /\ submitted' = Submit(submitted, procs)
    /\ ticks' = ticks + 1
    /\ loops' = [loops EXCEPT ![i].pc = "sleeping", ![i].samples = @ + 1]
    /\ UNCHANGED <<pc, isRunning, processes, now, interval, alertCpu, alertMemory,
                   activeAlerts, alertHistory, newAlerts, checkCalls, poll, summary>>
    /\ UNCHANGED <<extractVars, treeVars, calls, programVars>>

\* lines 299-324 of one trace loop: a sample is recorded, or the traced
\* process has no reading and cleanup ends the process
TraceTick(i) ==
    /\ loops[i].kind = "trace"
    /\ loops[i].pc = "polling"
    /\ ticks < MaxLoopTicks
    /\ \E present \in BOOLEAN :
          IF present
          THEN /\ loops' = [loops EXCEPT ![i].pc = "sleeping", ![i].samples = @ + 1]
               /\ UNCHANGED isRunning
          ELSE /\ loops' = AllExited
               /\ isRunning' = FALSE
    /\ ticks' = ticks + 1
    /\ UNCHANGED <<pc, history, processes, now, interval, alertCpu, alertMemory,
                   activeAlerts, alertHistory, newAlerts, checkCalls, poll, submitted, summary>>
    /\ UNCHANGED <<extractVars, treeVars, calls, programVars>>

\* `await sleep(interval)` resolves: while (isRunning), lines 125 and 298
LoopWake(i) ==
    /\ loops[i].pc = "sleeping"
    /\ loops' = [loops EXCEPT ![i].pc = IF isRunning THEN "polling" ELSE "returned"]
    /\ UNCHANGED <<sessionVars, extractVars, treeVars, calls, programVars>>

\* SIGINT/SIGTERM: the cleanup registered first runs and ends the process
Signal ==
    /\ ~Exited
    /\ loops # <<>>
    /\ isRunning' = FALSE
    /\ summary' = IF loops[1].kind = "monitor" THEN Some(RenderSummary(history)) ELSE summary
    /\ loops' = AllExited
    /\ UNCHANGED <<pc, history, processes, now, interval, alertCpu, alertMemory, activeAlerts,
                   alertHistory, newAlerts, checkCalls, poll, submitted, ticks>>
    /\ UNCHANGED <<extractVars, treeVars, calls, programVars>>

NextApi ==
    \/ CallStartMonitor
    \/ CallStopMonitor
    \/ CallStartTrace
    \/ \E i \in 1..Len(loops) : TraceListed(i)
    \/ \E i \in 1..Len(loops) : MonitorTick(i)
    \/ \E i \in 1..Len(loops) : TraceTick(i)
    \/ \E i \in 1..Len(loops) : LoopWake(i)
    \/ Signal

SpecApi == InitApi /\ [][NextApi]_vars

----------------------------------------------------------------------------
(* The program as launched: main of index.ts parses the options and starts *)
(* startTrace or startMonitor.                                             *)

Digits == <<"0", "1", "2", "3", "4", "5", "6", "7", "8", "9">>

DigitValue(c) == (CHOOSE i \in 1..Len(Digits) : Digits[i] = c) - 1

\* the number of characters of s from place i on that are in the set
RECURSIVE RunOf(_, _, _)
RunOf(s, i, set) ==
    IF i > Len(s) \/ s[i] \notin set THEN 0 ELSE 1 + RunOf(s, i + 1, set)

\* the value of a run of decimal digits
RECURSIVE DecimalValue(_)
DecimalValue(ds) ==
    IF Len(ds) = 0 THEN 0
    ELSE 10 * DecimalValue(SubSeq(ds, 1, Len(ds) - 1)) + DigitValue(ds[Len(ds)])

\* parseInt(s, 10): leading whitespace is skipped, a sign is read, then the
\* longest run of digits; what follows the digits is ignored.  Undefined
\* stands for NaN, returned when there is no digit to read
ParseInt(s) ==
    LET start == 1 + RunOf(s, 1, Whitespace)
        signed == start <= Len(s) /\ s[start] \in {"+", "-"}
        from == IF signed THEN start + 1 ELSE start
        n == RunOf(s, from, Range(Digits))
        value == DecimalValue(SubSeq(s, from, from + n - 1))
    IN  IF n = 0 THEN Undefined
        ELSE IF signed /\ s[start] = "-" THEN Some(0 - value)
        ELSE Some(value)

\* index.ts line 111: the least interval accepted
MinInterval == 100

\* values of --interval: the default, the least one accepted, one below it,
\* and strings that are not numbers
IntervalOptions ==
    {<<"2", "0", "0", "0">>, <<"1", "0", "0">>, <<"9", "9">>,
     <<"f", "a", "s", "t">>, <<"5", "0", "0", "m", "s">>, <<"1", "e", "3">>,
     <<"-", "5", "0", "0">>}

\* values of --trace: none, the pid of a process, of no process, and
\* strings that are not numbers
TraceOptions ==
    {Undefined, Some(<<"1">>), Some(<<"7">>), Some(<<"p", "i", "d">>), Some(<<"1", "x">>)}

\* prompts.ts lines 551-562 and 656-662, getProcessNames; of the presets
\* the model has "node" and "docker"
NodeType == <<"n", "o", "d", "e">>
DockerType == <<"d", "o", "c", "k", "e", "r">>
NginxType == <<"n", "g", "i", "n", "x">>
Exe == <<".", "e", "x", "e">>
NodePreset == <<NodeType, NodeType \o Exe, NodeType \o <<"j", "s">>, NodeType \o <<"j", "s">> \o Exe>>
GetProcessNames(processType) ==
    LET type == [i \in 1..Len(processType) |-> Fold(processType[i])]
    IN  IF type = NodeType THEN NodePreset
        ELSE IF type = DockerType THEN <<(<<"*">>)>>
        ELSE <<type, type \o Exe>>

\* prompts.ts lines 564-654, selectProcess, for the choice made at the
\* prompt: Undefined when it is cancelled, "custom" being a name typed in
SelectProcess(choice) ==
    IF choice = Undefined THEN Undefined
    ELSE IF Val(choice) = DockerType
    THEN Some([processNames |-> <<>>, dockerMode |-> TRUE])
    ELSE IF Val(choice) = NodeType
    THEN Some([processNames |-> NodePreset, dockerMode |-> FALSE])
    ELSE Some([processNames |-> <<Val(choice), Val(choice) \o Exe>>, dockerMode |-> FALSE])

Choices == {Undefined, Some(NodeType), Some(DockerType), Some(NginxType)}

\* what the operating system lists: the name of every process
OsName(pid) == IF pid = LongLived THEN NodeType \o Exe ELSE NginxType

\* process.ts lines 88-93: the name is one of the names, or starts with one
\* (lower case on both sides)
StartsWith(procName, name) ==
    Len(name) <= Len(procName) /\ SubSeq(procName, 1, Len(name)) = name
NameMatches(procName, names) ==
    \E i \in 1..Len(names) :
        LET name == [k \in 1..Len(names[i]) |-> Fold(names[i][k])]
            lower == [k \in 1..Len(procName) |-> Fold(procName[k])]
        IN  lower = name \/ StartsWith(lower, name)

\* process.ts lines 87-103: the listed processes left by the name filter
NameFilter(running, names) ==
    SeqOfSet({p \in running : NameMatches(OsName(p), names)})

\* what the operating system says of every process
OsListing == [p \in Pids |-> [name |-> OsName(p), cmd |-> Undefined]]
NamedListers(names) ==
    {[failed |-> FALSE, filtered |-> NameFilter(running, names), listed |-> OsListing,
      running |-> running] :
        running \in SUBSET Pids}

\* what the Docker daemon answers: the command fails, or the main pids of
\* the running containers
Daemons ==
    {NoDaemon} \cup {[failed |-> FALSE, containers |-> SeqOfSet(S)] : S \in SUBSET Pids}

\* ticks of a session started by main
MaxCliTicks == 2

\* a tick of a session started by main: the listing goes through the name
\* filter, the provider answers for every process left
TickNamed ==
    /\ cliPc = "started"
    /\ ticks < MaxCliTicks
    /\ \E lister \in NamedListers(processNames) :
       \E daemon \in (IF dockerOnly THEN Daemons ELSE {NoDaemon}) :
          Poll(lister, RampProvider(lister), daemon)

\* the process ends with the code before any loop is entered
ExitFromMain(code) ==
    /\ exitCode' = Some(code)
    /\ cliPc' = "failed"
    /\ UNCHANGED <<options, exportOnExit, exported, processNames>>
    /\ UNCHANGED <<sessionVars, webVars, dockerVars, traceVars, cacheVars>>

\* monitor.ts lines 235-242: startTrace up to `await psList()`
EnterStartTrace(pid, ms) ==
    /\ cliPc' = "started"
    /\ isRunning' = TRUE
    /\ interval' = ms
    /\ exportOnExit' = options.export
    /\ tracePid' = pid
    /\ tracePc' = "lookup"
    /\ UNCHANGED <<pc, history, processes, now, alertCpu, alertMemory, activeAlerts,
                   alertHistory, newAlerts, checkCalls, poll, submitted, ticks, summary>>
    /\ UNCHANGED <<options, exitCode, exported, processNames, traceHistory, graphs>>
    /\ UNCHANGED <<webVars, dockerVars, cacheVars>>

\* monitor.ts lines 49-124: startMonitor up to the first await of its loop;
\* available is what isDockerAvailable answers
EnterStartMonitor(names, ms, docker, available) ==
    /\ cliPc' = "started"
    /\ isRunning' = TRUE
    /\ history' = EmptyMap
    /\ interval' = ms
    /\ exportOnExit' = options.export
    /\ processNames' = names
    /\ dockerOnly' = docker
    /\ webPort' = IF options.web THEN Some(DefaultPort) ELSE Undefined
    /\ IF docker /\ ~available
       THEN pc' = "exited" /\ exitCode' = Some(1)
       ELSE pc' = "polling" /\ exitCode' = exitCode
    /\ UNCHANGED <<processes, now, alertCpu, alertMemory, activeAlerts, alertHistory,
                   newAlerts, checkCalls, poll, submitted, ticks, summary>>
    /\ UNCHANGED <<options, exported, state, published, containerCache, lastFetch>>
    /\ UNCHANGED <<traceVars, cacheVars>>

\* index.ts lines 108-176, main: choice is what is chosen at the prompt of
\* selectProcess, available what isDockerAvailable answers
Main(choice, available) ==
    /\ cliPc = "main"
    /\ LET ms == ParseInt(options.interval)
       IN  IF ms = Undefined \/ Val(ms) < MinInterval
           THEN ExitFromMain(1)
           ELSE IF options.trace # Undefined /\ Len(Val(options.trace)) > 0
           THEN LET pid == ParseInt(Val(options.trace))
                IN  IF pid = Undefined
                    THEN ExitFromMain(1)
                    ELSE EnterStartTrace(Val(pid), Val(ms))
           ELSE IF options.process # Undefined
           THEN EnterStartMonitor(GetProcessNames(Val(options.process)), Val(ms),
                                  options.docker, available)
           ELSE LET selection == SelectProcess(choice)
                IN  IF selection = Undefined
                    THEN ExitFromMain(0)
                    ELSE EnterStartMonitor(Val(selection).processNames, Val(ms),
                                           Val(selection).dockerMode \/ options.docker,
                                           available)
    /\ UNCHANGED <<extractVars, treeVars, apiVars>>

MainAny == \E choice \in Choices : \E available \in BOOLEAN : Main(choice, available)

----------------------------------------------------------------------------
(* startTrace, entered from main *)

\* samples of a trace
MaxTraceSamples == 102

\* monitor.ts lines 259-269 (the name and the command line are left out)
NewTrace(pid, t) ==
    [pid |-> pid, startTime |-> t, timestamps |-> <<>>, cpuHistory |-> <<>>,
     memoryHistory |-> <<>>, peakCPU |-> 0, peakMemory |-> 0]

\* mutant: the histories are cut to the last hundred, as those of the
\* monitor are
PushSample_Bounded(trace, t, stat) ==
    [trace EXCEPT
        !.timestamps = BoundHistory(Append(@, t)),
        !.cpuHistory = BoundHistory(Append(@, stat.cpu)),
        !.memoryHistory = BoundHistory(Append(@, stat.memory \div BytesPerMB)),
        !.peakCPU = Max(@, stat.cpu),
        !.peakMemory = Max(@, stat.memory \div BytesPerMB)]

\* monitor.ts lines 310-319: the sample is stored in the history
PushSample(trace, t, stat) ==
    [trace EXCEPT
        !.timestamps = Append(@, t),
        !.cpuHistory = Append(@, stat.cpu),
        !.memoryHistory = Append(@, stat.memory \div BytesPerMB),
        !.peakCPU = Max(@, stat.cpu),
        !.peakMemory = Max(@, stat.memory \div BytesPerMB)]

\* display.ts lines 288-405, renderTraceGraphs: "No data collected." when
\* there is no sample, otherwise the statistics and the graphs of the
\* histories (the averages, which are fractions, are left out)
RenderTraceGraphs(trace) ==
    IF Len(trace.cpuHistory) = 0 THEN [collected |-> FALSE]
    ELSE [collected |-> TRUE, pid |-> trace.pid, samples |-> Len(trace.cpuHistory),
          peakCPU |-> trace.peakCPU, peakMemory |-> trace.peakMemory,
          cpuHistory |-> trace.cpuHistory, memoryHistory |-> trace.memoryHistory]

\* export.ts lines 510-537, exportTraceToCSV: one row for every timestamp
ExportTraceToCSV(trace) ==
    [i \in 1..Len(trace.timestamps) |->
        [timestamp |-> trace.timestamps[i],
         elapsed_ms |-> trace.timestamps[i] - trace.startTime,
         cpu_percent |-> trace.cpuHistory[i],
         memory_mb |-> trace.memoryHistory[i]]]

\* monitor.ts lines 242-269: `await psList()` resolves with the processes
\* that run; the trace ends at once if the pid is not among them
TraceLookup(running) ==
    /\ tracePc = "lookup"
    /\ IF tracePid \in running
       THEN /\ traceHistory' = Some(NewTrace(tracePid, now))
            /\ tracePc' = "polling"
            /\ exitCode' = exitCode
       ELSE /\ traceHistory' = traceHistory
            /\ tracePc' = "exited"
            /\ exitCode' = Some(1)
    /\ UNCHANGED <<tracePid, graphs>>
    /\ UNCHANGED <<options, cliPc, exportOnExit, exported, processNames>>
    /\ UNCHANGED <<sessionVars, webVars, dockerVars, cacheVars, extractVars, treeVars, apiVars>>

\* monitor.ts lines 272-289, cleanup of startTrace: the graphs, the CSV file
\* if it is configured, the end of the process
TraceCleanup ==
    /\ isRunning' = FALSE
    /\ graphs' = Some(RenderTraceGraphs(Val(traceHistory)))
    /\ exported' = IF Exports(exportOnExit)
                   THEN Some(ExportTraceToCSV(Val(traceHistory)))
                   ELSE exported
    /\ exitCode' = Some(0)
    /\ tracePc' = "exited"
    /\ UNCHANGED <<tracePid, traceHistory>>
    /\ UNCHANGED <<options, cliPc, exportOnExit, processNames>>
    /\ UNCHANGED <<pc, history, processes, now, interval, alertCpu, alertMemory,
                   activeAlerts, alertHistory, newAlerts, checkCalls, submitted,
                   ticks, summary>>
    /\ UNCHANGED <<webVars, dockerVars, cacheVars, extractVars, treeVars, apiVars>>

\* monitor.ts lines 298-324, one tick of the trace from the completion of
\* `await getProcessStats([pid])` to the start of `await sleep`
TraceSample(provider) ==
    /\ tracePc = "polling"
    /\ poll' = [poll EXCEPT !.provider = provider]
    /\ LET stat == MapGet(GetProcessStats(<<tracePid>>, provider), tracePid)
       IN  IF stat = Undefined
           THEN TraceCleanup
           ELSE /\ traceHistory' = Some(PushSample(Val(traceHistory), now, Val(stat)))
                /\ tracePc' = "sleeping"
                /\ UNCHANGED <<tracePid, graphs>>
                /\ UNCHANGED <<pc, isRunning, history, processes, now, interval, alertCpu,
                               alertMemory, activeAlerts, alertHistory, newAlerts,
                               checkCalls, submitted, ticks, summary>>
                /\ UNCHANGED <<webVars, dockerVars, cacheVars, cliVars>>
                /\ UNCHANGED <<extractVars, treeVars, apiVars>>

\* the provider answers for the traced process, the k-th time with a CPU
\* reading that falls and a memory reading that rises, or it does not: the
\* process has exited, or pidusage throws
TraceProviders ==
    LET k == Len(Val(traceHistory).timestamps) + 1
    IN  {[failed |-> FALSE,
          stats |-> [p \in {tracePid} |-> Stat(1000 - k, k * BytesPerMB)]],
         [failed |-> FALSE, stats |-> EmptyMap],
         [failed |-> TRUE, stats |-> EmptyMap]}

TraceSampleAny ==
    /\ tracePc = "polling"
    /\ Len(Val(traceHistory).timestamps) < MaxTraceSamples
    /\ \E provider \in TraceProviders : TraceSample(provider)

\* `await sleep(interval)` of the trace resolves
TraceWake ==
    /\ tracePc = "sleeping"
    /\ isRunning
    /\ now' = now + interval
    /\ tracePc' = "polling"
    /\ UNCHANGED <<pc, isRunning, history, processes, interval, alertCpu, alertMemory,
                   activeAlerts, alertHistory, newAlerts, checkCalls, poll, submitted,
                   ticks, summary>>
    /\ UNCHANGED <<tracePid, traceHistory, graphs>>
    /\ UNCHANGED <<webVars, dockerVars, cacheVars, cliVars, extractVars, treeVars, apiVars>>

\* SIGINT/SIGTERM while the trace awaits the provider or sleeps
TraceInterrupt ==
    /\ tracePc \in {"polling", "sleeping"}
    /\ poll' = poll
    /\ TraceCleanup

\* the command lines the program is launched with: a process type is given
\* and neither Docker mode nor the dashboard is asked for
CliOptions ==
    [interval : IntervalOptions, trace : TraceOptions, export : BOOLEAN,
     process : {Some(NodeType)}, docker : {FALSE}, web : {FALSE}]

InitCli ==
    /\ NoSession
    /\ ExtractIdle
    /\ TreeIdle
    /\ ApiIdle
    /\ WebIdle
    /\ DockerIdle
    /\ TraceIdle
    /\ CacheIdle
    /\ options \in CliOptions
    /\ cliPc = "main"
    /\ exitCode = Undefined
    /\ exportOnExit = FALSE
    /\ exported = Undefined
    /\ processNames = <<>>

NextCli ==
    \/ MainAny
    \/ \E running \in SUBSET Pids : TraceLookup(running)
    \/ TraceSampleAny
    \/ TraceWake
    \/ TraceInterrupt
    \/ TickNamed
    \/ Wake
    \/ Interrupt

SpecCli == InitCli /\ [][NextCli]_vars

----------------------------------------------------------------------------
(* Docker mode: the program is launched with --docker, with or without a   *)
(* process type, or Docker containers are chosen at the prompt.            *)

DockerOptions ==
    [interval : {<<"2", "0", "0", "0">>}, trace : {Undefined}, export : {FALSE},
     process : {Undefined, Some(DockerType), Some(NodeType)}, docker : BOOLEAN,
     web : {FALSE}]

InitDocker ==
    /\ NoSession
    /\ ExtractIdle
    /\ TreeIdle
    /\ ApiIdle
    /\ WebIdle
    /\ DockerIdle
    /\ TraceIdle
    /\ CacheIdle
    /\ options \in DockerOptions
    /\ cliPc = "main"
    /\ exitCode = Undefined
    /\ exportOnExit = FALSE
    /\ exported = Undefined
    /\ processNames = <<>>

NextDocker == MainAny \/ TickNamed \/ Wake \/ Interrupt

SpecDocker == InitDocker /\ [][NextDocker]_vars

----------------------------------------------------------------------------
(* getWindowsCommandLines called on its own, at times that are a           *)
(* millisecond, a millisecond less than the time-to-live, or the           *)
(* time-to-live apart.                                                     *)

\* process.ts line 10
CMD_LINE_CACHE_TTL == 5000

\* mutant: the cache is served up to and including the time-to-live
Fresh_UpToTtl(cache, last, t) == t - last <= CMD_LINE_CACHE_TTL /\ DOMAIN cache # {}

\* process.ts line 19: the cache is served
Fresh(cache, last, t) == t - last < CMD_LINE_CACHE_TTL /\ DOMAIN cache # {}

\* process.ts lines 15-61, getWindowsCommandLines at time t: what is
\* returned, the cache and the time of the fetch it leaves, and whether
\* wmic was run.  wmic is what the command does: wmic.failed when execSync
\* throws, else wmic.lines, the command lines parsed from its output
GetWindowsCommandLines(cache, last, t, wmic) ==
    IF Fresh(cache, last, t)
    THEN [returned |-> cache, cache |-> cache, last |-> last, called |-> FALSE]
    ELSE IF wmic.failed
    THEN [returned |-> cache, cache |-> cache, last |-> last, called |-> TRUE]
    ELSE [returned |-> wmic.lines, cache |-> wmic.lines, last |-> t, called |-> TRUE]

\* calls of getWindowsCommandLines
MaxLookups == 3

\* the time between two calls
Pauses == {1, CMD_LINE_CACHE_TTL - 1, CMD_LINE_CACHE_TTL}

\* what wmic does: it fails, or its output has the command lines of the
\* processes, which may be none
Wmics ==
    {[failed |-> TRUE, lines |-> EmptyMap], [failed |-> FALSE, lines |-> EmptyMap]}
    \cup {[failed |-> FALSE, lines |-> [p \in {LongLived} |-> c]] :
            c \in {<<"a", ".", "j", "s">>, <<"b", ".", "j", "s">>}}

\* one call, `pause` after the call before it.  The record of the call
\* has the time of the call, the cache before it, the time of the last
\* fetch that succeeded before it (Undefined if none did), and what the
\* call did
Lookup(pause, wmic) ==
    /\ lookup.n < MaxLookups
    /\ now' = now + pause
    /\ LET call == GetWindowsCommandLines(cmdLineCache, lastCmdLineFetch, now', wmic)
           since == IF lookup.n = 0 THEN Undefined
                    ELSE IF lookup.called /\ ~lookup.failed THEN Some(lookup.at)
                    ELSE lookup.since
       IN  /\ cmdLineCache' = call.cache
           /\ lastCmdLineFetch' = call.last
           /\ lookup' = [n |-> lookup.n + 1, at |-> now', before |-> cmdLineCache,
                         since |-> since, called |-> call.called,
                         failed |-> call.called /\ wmic.failed,
                         returned |-> call.returned]
    /\ UNCHANGED <<pc, isRunning, history, processes, interval, alertCpu, alertMemory,
                   activeAlerts, alertHistory, newAlerts, checkCalls, poll, submitted,
                   ticks, summary>>
    /\ UNCHANGED <<webVars, dockerVars, cliVars, traceVars>>
    /\ UNCHANGED <<extractVars, treeVars, apiVars>>

InitCache ==
    /\ NoSession
    /\ ExtractIdle
    /\ TreeIdle
    /\ ApiIdle
    /\ WebIdle
    /\ DockerIdle
    /\ CliIdle
    /\ TraceIdle
    /\ CacheIdle

NextCache == \E pause \in Pauses : \E wmic \in Wmics : Lookup(pause, wmic)

SpecCache == InitCache /\ [][NextCache]_vars

----------------------------------------------------------------------------
(* Vocabulary of the properties *)

\* a step that is the synchronous part of one tick
TickStep == pc = "polling" /\ pc' = "sleeping"

AlertTypes == {"cpu", "memory"}

\* the value checkAlerts compares for a type, and the configured threshold
Observed(proc, type) == IF type = "cpu" THEN proc.cpu ELSE proc.memoryMB
Configured(type) == IF type = "cpu" THEN alertCpu ELSE alertMemory

\* the positions of the events of one process and type in a list of alerts
EventsOf(alerts, pid, type) ==
    {i \in 1..Len(alerts) : alerts[i].pid = pid /\ alerts[i].type = type}

IsPrefix(s, t) == Len(s) <= Len(t) /\ SubSeq(t, 1, Len(s)) = s

\* the listed pids the provider, though it answered, returned no entry for
MissingPids(pl) ==
    IF pl.lister.failed \/ pl.provider.failed THEN {}
    ELSE Range(pl.lister.filtered) \ DOMAIN pl.provider.stats

----------------------------------------------------------------------------
(* C1: in every state a signal handler or a dashboard request can observe, *)
(* the two windows of every history record have the same length, at most   *)
(* 100.                                                                    *)
C1_WindowsInLockstep ==
    \A p \in DOMAIN history :
        /\ Len(history[p].cpuHistory) = Len(history[p].memoryHistory)
        /\ Len(history[p].cpuHistory) <= maxHistory
        /\ Len(history[p].cpuHistory) <= history[p].samples

\* a record that has evicted, next to one that has not
C1_Witness ==
    \E p, q \in DOMAIN history :
        /\ history[p].samples > maxHistory
        /\ Len(history[p].memoryHistory) = maxHistory
        /\ history[q].samples \in 1..(maxHistory - 1)
        /\ Len(history[q].cpuHistory) = history[q].samples

(* C2: once more than 100 samples have been recorded for a process, both   *)
(* windows hold exactly the last 100 submitted values, in submission order.*)
C2_LastHundred ==
    \A p \in DOMAIN history :
        LET n == Len(submitted[p])
        IN  n > maxHistory =>
              /\ history[p].cpuHistory =
                   [i \in 1..maxHistory |-> submitted[p][n - maxHistory + i].cpu]
              /\ history[p].memoryHistory =
                   [i \in 1..maxHistory |-> submitted[p][n - maxHistory + i].memoryMB]

\* memory samples 1..MaxSamples leave the last hundred of them
C2_Witness ==
    /\ LongLived \in DOMAIN history
    /\ Len(submitted[LongLived]) = MaxSamples
    /\ history[LongLived].memoryHistory =
         [i \in 1..maxHistory |-> MaxSamples - maxHistory + i]

(* C3: two breaching checks of one process and type at most 30000 ms apart *)
(* emit one alert in total: no two events of the log for the same process  *)
(* and type are 30000 ms or less apart, whatever the time of the first.    *)
C3_OneAlertPerCooldown ==
    \A i, j \in 1..Len(alertHistory) :
        (/\ i < j
         /\ alertHistory[i].pid = alertHistory[j].pid
         /\ alertHistory[i].type = alertHistory[j].type)
        => alertHistory[j].timestamp - alertHistory[i].timestamp > ALERT_COOLDOWN

(* C4: thresholds are strict: every alert a check emits has an observed    *)
(* value strictly greater than the configured threshold, and a value not   *)
(* greater than the threshold (equal to it in particular) emits nothing    *)
(* and leaves the suppression entry as it was.                             *)
C4_StrictThreshold ==
    [][(TickStep /\ poll'.checked) =>
        /\ \A i \in 1..Len(newAlerts') :
              /\ Configured(newAlerts'[i].type) # Undefined
              /\ newAlerts'[i].threshold = Val(Configured(newAlerts'[i].type))
              /\ newAlerts'[i].value > newAlerts'[i].threshold
              /\ \E k \in 1..Len(processes') :
                    /\ processes'[k].pid = newAlerts'[i].pid
                    /\ Observed(processes'[k], newAlerts'[i].type) = newAlerts'[i].value
        /\ \A k \in 1..Len(processes') : \A type \in AlertTypes :
              LET proc == processes'[k]
                  key == AlertKey(type, proc.pid)
              IN  (/\ Configured(type) # Undefined
                   /\ Observed(proc, type) <= Val(Configured(type)))
                  => /\ EventsOf(newAlerts', proc.pid, type) = {}
                     /\ MapGet(activeAlerts', key) = MapGet(activeAlerts, key)
      ]_vars

\* a check saw a CPU value equal to the CPU threshold and emitted nothing for it
C4_Witness ==
    /\ pc = "sleeping"
    /\ poll.checked
    /\ alertCpu # Undefined
    /\ \E k \in 1..Len(processes) :
          /\ processes[k].cpu = Val(alertCpu)
          /\ EventsOf(newAlerts, processes[k].pid, "cpu") = {}
          /\ EventsOf(newAlerts, processes[k].pid, "memory") # {}

(* C5: a breaching sample whose suppression entry is absent or older than  *)
(* 30000 ms emits exactly one new event for its process and type, appended *)
(* to the log, and sets lastFired = now; at exactly 30000 ms it emits none.*)
C5_CooldownExpiry ==
    [][(TickStep /\ poll'.checked) =>
        \A k \in 1..Len(processes') : \A type \in AlertTypes :
            LET proc == processes'[k]
                key == AlertKey(type, proc.pid)
                last == MapGet(activeAlerts, key)
                fired == EventsOf(newAlerts', proc.pid, type)
            IN  (/\ Configured(type) # Undefined
                 /\ Observed(proc, type) > Val(Configured(type)))
                => /\ (last = Undefined \/ now - Val(last) > ALERT_COOLDOWN)
                      => /\ Cardinality(fired) = 1
                         /\ Cardinality(EventsOf(alertHistory', proc.pid, type))
                              = Cardinality(EventsOf(alertHistory, proc.pid, type)) + 1
                         /\ MapGet(activeAlerts', key) = Some(now)
                   /\ (last # Undefined /\ now - Val(last) = ALERT_COOLDOWN)
                      => fired = {}
      ]_vars

(* C6: alert types and processes are independent: whether a check fires    *)
(* for a process and a type is what checkAlerts decides for that process   *)
(* alone, with only that type configured and only the suppression entry of *)
(* that process and type; in particular a process in CPU cooldown still    *)
(* fires a memory alert when memory breaches and memory is not in cooldown.*)
OnlyType(type) ==
    AlertConfig(IF type = "cpu" THEN alertCpu ELSE Undefined,
                IF type = "memory" THEN alertMemory ELSE Undefined)

OwnEntry(active, key) == [k \in DOMAIN active \cap {key} |-> active[k]]

C6_IndependentTypes ==
    [][(TickStep /\ poll'.checked) =>
        \A k \in 1..Len(processes') :
            LET proc == processes'[k]
                cpuLast == MapGet(activeAlerts, AlertKey("cpu", proc.pid))
            IN  /\ \A type \in AlertTypes :
                      LET own == OwnEntry(activeAlerts, AlertKey(type, proc.pid))
                          alone == CheckAlerts(<<proc>>, OnlyType(type), <<>>, own, now)
                      IN  (EventsOf(newAlerts', proc.pid, type) # {})
                            <=> (Len(alone.newAlerts) = 1)
                /\ (/\ cpuLast # Undefined
                    /\ now - Val(cpuLast) <= ALERT_COOLDOWN
                    /\ alertMemory # Undefined
                    /\ proc.memoryMB > Val(alertMemory)
                    /\ MapGet(activeAlerts, AlertKey("memory", proc.pid)) = Undefined)
                   => EventsOf(newAlerts', proc.pid, "memory") # {}
      ]_vars

\* a check fired a memory alert for a process whose breaching CPU was
\* suppressed by its cooldown, while the other process has entries too
C6_Witness ==
    /\ pc = "sleeping"
    /\ poll.checked
    /\ alertCpu # Undefined
    /\ \E k \in 1..Len(processes) :
          LET proc == processes[k]
          IN  /\ proc.cpu > Val(alertCpu)
              /\ EventsOf(newAlerts, proc.pid, "cpu") = {}
              /\ EventsOf(newAlerts, proc.pid, "memory") # {}
              /\ EventsOf(alertHistory, proc.pid, "cpu") # {}
              /\ \E q \in Pids \ {proc.pid} : AlertKey("cpu", q) \in DOMAIN activeAlerts

(* C7: an omitted threshold type never produces an event or a suppression  *)
(* entry of that type; with both types omitted checkAlerts is never called *)
(* and the log stays empty.                                                *)
C7_OmittedTypeSilent ==
    /\ \A type \in AlertTypes :
          Configured(type) = Undefined =>
             /\ \A i \in 1..Len(alertHistory) : alertHistory[i].type # type
             /\ \A i \in 1..Len(newAlerts) : newAlerts[i].type # type
             /\ \A key \in DOMAIN activeAlerts : key[1] # type
    /\ (alertCpu = Undefined /\ alertMemory = Undefined) =>
          /\ checkCalls = 0
          /\ alertHistory = <<>>
          /\ activeAlerts = EmptyMap

\* memory is omitted, a check ran on a process using more memory than any
\* threshold of the model, and its CPU alert fired
C7_Witness ==
    /\ alertMemory = Undefined
    /\ alertCpu # Undefined
    /\ checkCalls > 0
    /\ \E k \in 1..Len(processes) :
          /\ processes[k].memoryMB > 500
          /\ EventsOf(alertHistory, processes[k].pid, "cpu") # {}

(* C8: the alert log is append-only: every step leaves the previous log a  *)
(* prefix of the new one, a check appends exactly the events it returns,   *)
(* in order, and no other step changes the log.                            *)
C8_AppendOnlyLog ==
    [][/\ IsPrefix(alertHistory, alertHistory')
       /\ (TickStep /\ poll'.checked) => alertHistory' = alertHistory \o newAlerts'
       /\ ~(TickStep /\ poll'.checked) =>
             (alertHistory' = alertHistory /\ newAlerts' = newAlerts)
      ]_vars

\* a check appended two events to a log that already held events
C8_Witness ==
    /\ Len(newAlerts) >= 2
    /\ Len(alertHistory) > Len(newAlerts)
    /\ SubSeq(alertHistory, Len(alertHistory) - Len(newAlerts) + 1, Len(alertHistory))
         = newAlerts

(* C9: a listed process for which the provider returns no entry is skipped *)
(* for the tick: its history record is left as it was (no window entry, no *)
(* sample counted, no peak changed), and none is created.                  *)
C9_MissingEntrySkipped ==
    [][TickStep =>
        \A p \in MissingPids(poll') : MapGet(history', p) = MapGet(history, p)
      ]_vars

(* C10: a tick in which the whole provider call fails updates no history   *)
(* record.                                                                 *)
C10_FailedProviderSkipsTick ==
    [][(TickStep /\ poll'.provider.failed) => history' = history]_vars

----------------------------------------------------------------------------
(* Vocabulary of the properties of history records *)

ListedPids(procs) == {procs[i].pid : i \in 1..Len(procs)}

\* the processes a record was ever created for
EverRecorded == {p \in Pids : Len(submitted[p]) > 0}

(* C11: history records persist: no step removes a record, a tick in which *)
(* the process is not in the filtered set leaves its record exactly as it  *)
(* was, as does every step that is not a tick, and the summary printed on  *)
(* cancellation has a row for every record ever created, the records of    *)
(* vanished processes included.                                            *)
C11_RecordsPersist ==
    [][/\ \A p \in DOMAIN history :
             /\ p \in DOMAIN history'
             /\ (TickStep /\ p \notin ListedPids(processes')) => history'[p] = history[p]
             /\ ~TickStep => history'[p] = history[p]
       /\ pc' = "exited" =>
             /\ summary' # Undefined
             /\ {r.pid : r \in Val(summary')} = EverRecorded
             /\ \A r \in Val(summary') : r.samples = Len(submitted[r.pid])
      ]_vars

\* the summary has the row of a process that a later tick, which listed
\* another process, did not list
C11_Witness ==
    /\ pc = "exited"
    /\ ticks >= 2
    /\ processes # <<>>
    /\ \E p \in DOMAIN history :
          /\ p \notin ListedPids(processes)
          /\ \E r \in Val(summary) : r.pid = p /\ r.samples = 1

(* C12: the identity of a record is computed once: the display name and    *)
(* the command line are set when the record is created, from the first     *)
(* sighting, and no later step changes them, whatever the later ticks      *)
(* report for the process, also when it is listed again after a tick that  *)
(* did not list it.                                                        *)
C12_IdentityOnce ==
    [][/\ \A p \in DOMAIN history :
             p \in DOMAIN history' =>
                /\ history'[p].name = history[p].name
                /\ history'[p].cmd = history[p].cmd
       /\ \A p \in DOMAIN history' \ DOMAIN history :
             \E i \in 1..Len(processes') :
                /\ processes'[i].pid = p
                /\ history'[p].cmd = processes'[i].cmd
                /\ history'[p].name = DisplayName(processes'[i])
      ]_vars

\* a process first seen with a short script path, then not listed, is
\* listed again with another command line, and its record keeps the first
C12_Witness ==
    /\ pc = "sleeping"
    /\ \E i \in 1..Len(processes) :
          LET proc == processes[i]
          IN  /\ proc.pid \in DOMAIN history
              /\ history[proc.pid].cpuHistory = <<1, 3>>
              /\ history[proc.pid].cmd # proc.cmd
              /\ history[proc.pid].cmd # Undefined
              /\ history[proc.pid].name # DisplayName(proc)
              /\ Len(DisplayName(proc)) = 59

----------------------------------------------------------------------------
(* Vocabulary of the properties of extractScriptName: the tokens of the    *)
(* command line are the arguments it was joined from, without the double   *)
(* quotes around them.                                                     *)

Unquoted(a) ==
    IF Len(a) >= 2 /\ a[1] = "\"" /\ a[Len(a)] = "\"" THEN SubSeq(a, 2, Len(a) - 1) ELSE a

Token(i) == Unquoted(args[i])

\* the token ends in a dot and a recognized extension
IsScript(t) ==
    \E e \in 1..Len(extensions) :
        /\ Len(t) > Len(extensions[e]) + 1
        /\ t[Len(t) - Len(extensions[e])] = "."
        /\ OccursAt(t, Len(t) - Len(extensions[e]) + 1, extensions[e])

\* a Windows drive path or a Unix absolute path
IsAbsolute(t) ==
    \/ t[1] = "/"
    \/ Len(t) >= 3 /\ t[1] \in Letters /\ t[2] = ":" /\ t[3] \in Separators

\* absolute, or with a directory separator in it
IsFullPath(t) == IsAbsolute(t) \/ \E i \in 1..Len(t) : t[i] \in Separators

ScriptTokens == {i \in 1..Len(args) : IsScript(Token(i))}
FullPathScripts == {i \in ScriptTokens : IsFullPath(Token(i))}
AbsoluteScripts == {i \in ScriptTokens : IsAbsolute(Token(i))}

\* the scripts directory of a virtual environment, in an executable path
VenvDir == <<"\\", ".", "v", "e", "n", "v", "\\">>

(* C17: for a command line with an absolute path that ends in a recognized *)
(* extension, extractScriptName returns that path, character for           *)
(* character, whatever the other tokens are (one of the paths, when the    *)
(* command line has several).                                              *)
C17_AbsolutePathReturned ==
    (extractPc = "returned" /\ AbsoluteScripts # {}) =>
        \E i \in AbsoluteScripts : scriptName = Some(Token(i))

(* C18: for a command line whose executable lies in the scripts directory  *)
(* of a .venv and whose only script token is a bare filename,              *)
(* extractScriptName returns the directory that holds .venv joined with    *)
(* the filename.                                                           *)
C18_ProjectRootInferred ==
    (extractPc = "returned" /\ Len(args) >= 2) =>
        \A i \in 1..Len(Token(1)) : \A k \in ScriptTokens :
            (/\ OccursAt(Token(1), i, VenvDir)
             /\ ScriptTokens = {k}
             /\ ~IsFullPath(Token(k)))
            => scriptName = Some(SubSeq(Token(1), 1, i) \o Token(k))

(* C19: extractScriptName returns the leftmost token that is a full path   *)
(* ending in a recognized extension, whatever script tokens stand before   *)
(* or after it; a bare script filename only when the command line has no   *)
(* such full path; and nothing when there is no command line or no script  *)
(* token.                                                                  *)
C19_LeftmostFullPath ==
    extractPc = "returned" =>
        /\ FullPathScripts # {} => scriptName = Some(Token(Least(FullPathScripts)))
        /\ (FullPathScripts = {} /\ ScriptTokens # {}) =>
              \E i \in ScriptTokens : scriptName = Some(Token(i))
        /\ ScriptTokens = {} => scriptName = Undefined

----------------------------------------------------------------------------
(* Vocabulary of the properties of the process tree *)

FilteredPids == {filtered[i].pid : i \in 1..Len(filtered)}

\* the process has a parent id, and it is the pid of a filtered process
HasFilteredParent(p) == p \in DOMAIN allProcesses /\ allProcesses[p].ppid \in FilteredPids

ParentOf(p) == allProcesses[p].ppid

\* the chain of parents of the process leaves the filtered set within
\* `steps` steps: the process is in the forest
RECURSIVE LeavesWithin(_, _)
LeavesWithin(p, steps) ==
    IF ~HasFilteredParent(p) THEN TRUE
    ELSE IF steps = 0 THEN FALSE
    ELSE LeavesWithin(ParentOf(p), steps - 1)

InForest == {p \in FilteredPids : LeavesWithin(p, Len(filtered))}

\* the number of ancestors of a process of the forest
RECURSIVE AncestorCount(_)
AncestorCount(p) == IF ~HasFilteredParent(p) THEN 0 ELSE 1 + AncestorCount(ParentOf(p))

\* the place of a process in the listing
Discovery(p) == CHOOSE i \in 1..Len(filtered) : filtered[i].pid = p

\* the lists of the forest: the roots, and the children of each node in it
ForestLists == {forest.roots} \cup {forest.nodes[p].children : p \in InForest}

(* C13: in the forest buildProcessTree returns, a filtered process is a    *)
(* root, at depth 0, exactly if its parent id is not the pid of a filtered *)
(* process; otherwise it is in the children of its parent and in no other  *)
(* list.                                                                   *)
C13_RootPromotion ==
    treePc = "built" =>
        \A p \in FilteredPids :
            /\ (p \in Range(forest.roots) /\ forest.nodes[p].depth = 0)
                  <=> ~HasFilteredParent(p)
            /\ p \in Range(forest.roots) <=> ~HasFilteredParent(p)
            /\ \A q \in FilteredPids :
                  p \in Range(forest.nodes[q].children)
                     <=> (HasFilteredParent(p) /\ q = ParentOf(p))

\* A without parent, B the child of A, C the child of a process that is not
\* filtered: the roots are A and C, and B is the only child of A, at depth 1
C13_Witness ==
    /\ treePc = "built"
    /\ Len(filtered) = 3
    /\ 1 \notin DOMAIN allProcesses
    /\ 2 \in DOMAIN allProcesses /\ ParentOf(2) = 1
    /\ 3 \in DOMAIN allProcesses /\ ParentOf(3) = Outsider(3)
    /\ Range(forest.roots) = {1, 3}
    /\ forest.nodes[1].children = <<2>>
    /\ forest.nodes[2].depth = 1
    /\ forest.nodes[3].children = <<>>

(* C14: in every forest buildProcessTree returns, the depth of a child is  *)
(* the depth of its parent plus one, for chains of any length and for any  *)
(* listing order.                                                          *)
C14_DepthInvariant ==
    treePc = "built" =>
        \A p \in InForest : \A i \in 1..Len(forest.nodes[p].children) :
            forest.nodes[forest.nodes[p].children[i]].depth = forest.nodes[p].depth + 1

(* C15: the roots and the children of every node of the forest, at every   *)
(* depth, are in order of non-increasing CPU, and nodes of equal CPU are   *)
(* in the order of their discovery.                                        *)
C15_RankedByCpu ==
    treePc \in {"built", "flattened"} =>
        \A list \in ForestLists : \A i, j \in 1..Len(list) :
            i < j =>
               /\ forest.nodes[list[i]].cpu >= forest.nodes[list[j]].cpu
               /\ forest.nodes[list[i]].cpu = forest.nodes[list[j]].cpu
                     => Discovery(list[i]) < Discovery(list[j])

\* a node has two children of equal CPU, in the order of their discovery,
\* after a child of higher CPU that was discovered between them
C15_Witness ==
    /\ treePc = "built"
    /\ \E p \in InForest :
          LET list == forest.nodes[p].children
          IN  /\ Len(list) = 3
              /\ Discovery(list[2]) < Discovery(list[1])
              /\ Discovery(list[1]) < Discovery(list[3])
              /\ forest.nodes[list[2]].cpu = forest.nodes[list[3]].cpu
              /\ forest.nodes[list[1]].cpu > forest.nodes[list[2]].cpu

\* the number of nodes of the subtree of a node, and of a list of nodes
RECURSIVE SubtreeSize(_)
RECURSIVE SizeOfAll(_)
SubtreeSize(p) == 1 + SizeOfAll(forest.nodes[p].children)

SizeOfAll(list) ==
    IF Len(list) = 0 THEN 0 ELSE SubtreeSize(Head(list)) + SizeOfAll(Tail(list))

\* the nodes of the list stand in flat from position start on, each followed
\* by its subtree
LaidOut(list, start) ==
    \A k \in 1..Len(list) :
        LET at == start + SizeOfAll(SubSeq(list, 1, k - 1))
        IN  at <= Len(flat) /\ flat[at] = list[k]

(* C16: flattenTree returns the nodes in pre-order, depth first: the       *)
(* result starts with the first root, every node is immediately followed   *)
(* by the flattening of its children in their stored order, and the depth  *)
(* of every node is the number of its ancestors.                           *)
C16_PreOrder ==
    treePc = "flattened" =>
        /\ Len(flat) = SizeOfAll(forest.roots)
        /\ LaidOut(forest.roots, 1)
        /\ \A i \in 1..Len(flat) :
              /\ LaidOut(forest.nodes[flat[i]].children, i + 1)
              /\ forest.nodes[flat[i]].depth = AncestorCount(flat[i])

\* a chain of three listed from the grandchild up, and a second root: the
\* flattening has the chain from the root down, at depths 0, 1 and 2
C16_Witness ==
    /\ treePc = "flattened"
    /\ Len(flat) = 4
    /\ \E i \in 1..2 :
          /\ Discovery(flat[i]) > Discovery(flat[i + 1])
          /\ Discovery(flat[i + 1]) > Discovery(flat[i + 2])
          /\ forest.nodes[flat[i]].depth = 0
          /\ forest.nodes[flat[i + 1]].depth = 1
          /\ forest.nodes[flat[i + 2]].depth = 2

----------------------------------------------------------------------------
\* the loops that have a tick in flight
InFlight == {i \in 1..Len(loops) : loops[i].pc = "polling"}

(* C20: at most one poll tick is in flight at any time, for any sequence   *)
(* of startMonitor, stopMonitor and startTrace calls: no two loops are     *)
(* inside a tick at once.                                                  *)
C20_OneTickInFlight == Cardinality(InFlight) <= 1

----------------------------------------------------------------------------
\* the CPU and the memory readings ever recorded for a process
CpuSamples(p) == {submitted[p][i].cpu : i \in 1..Len(submitted[p])}
MemorySamples(p) == {submitted[p][i].memoryMB : i \in 1..Len(submitted[p])}

\* the peaks of every record are the highest readings ever recorded
PeaksOverAll ==
    \A p \in DOMAIN history :
        /\ Len(submitted[p]) > 0
        /\ history[p].peakCPU \in CpuSamples(p)
        /\ \A c \in CpuSamples(p) : c <= history[p].peakCPU
        /\ history[p].peakMemory \in MemorySamples(p)
        /\ \A m \in MemorySamples(p) : m <= history[p].peakMemory
        /\ \A i \in 1..Len(history[p].cpuHistory) :
              history[p].peakCPU >= history[p].cpuHistory[i]
        /\ \A i \in 1..Len(history[p].memoryHistory) :
              history[p].peakMemory >= history[p].memoryHistory[i]

\* no step lowers a peak
PeaksKept ==
    \A p \in DOMAIN history :
        /\ p \in DOMAIN history'
        /\ history'[p].peakCPU >= history[p].peakCPU
        /\ history'[p].peakMemory >= history[p].peakMemory

(* C26: the peaks of every history record are the highest CPU and memory   *)
(* readings ever recorded for the process, evicted ones included; no step  *)
(* lowers them, and they are at least every entry of the windows.          *)
C26_PeaksOverAllSamples == [](PeaksOverAll) /\ [][PeaksKept]_vars

\* the highest CPU reading has left the window and is still the peak
C26_Witness ==
    /\ LongLived \in DOMAIN history
    /\ history[LongLived].samples > maxHistory
    /\ history[LongLived].peakCPU = RampStat(LongLived, 1).cpu
    /\ \A i \in 1..Len(history[LongLived].cpuHistory) :
          history[LongLived].cpuHistory[i] < history[LongLived].peakCPU

----------------------------------------------------------------------------
\* the counter of every record is the number of ticks that recorded the
\* process, and the windows hold min(samples, 100) entries
CountsAll ==
    \A p \in DOMAIN history :
        /\ history[p].samples = Len(submitted[p])
        /\ Len(history[p].cpuHistory) =
              (IF history[p].samples < maxHistory THEN history[p].samples ELSE maxHistory)
        /\ Len(history[p].memoryHistory) = Len(history[p].cpuHistory)

\* a tick adds one to the counter of every process it records and leaves
\* the other counters alone
CountsByOne ==
    \A p \in DOMAIN history' :
        LET before == IF p \in DOMAIN history THEN history[p].samples ELSE 0
            recorded == TickStep /\ p \in ListedPids(processes')
        IN  history'[p].samples = (IF recorded THEN before + 1 ELSE before)

(* C27: sampleCount of a record is the number of ticks in which the        *)
(* process was recorded since the record was created: one more in every    *)
(* such tick, never capped; the windows hold min(sampleCount, 100) entries.*)
C27_SampleCount == [](CountsAll) /\ [][CountsByOne]_vars

\* a counter past the cap of the windows, next to one below it
C27_Witness ==
    \E p, q \in DOMAIN history :
        /\ history[p].samples = MaxSamples
        /\ Len(history[p].cpuHistory) = maxHistory
        /\ history[q].samples \in 1..(maxHistory - 1)
        /\ Len(history[q].memoryHistory) = history[q].samples

----------------------------------------------------------------------------
\* the suppression entry of a process and type is there exactly when the
\* log has an event of the pair, and holds the time of the latest one
EntryOfLatestEvent ==
    \A p \in Pids : \A type \in AlertTypes :
        LET events == EventsOf(alertHistory, p, type)
            key == AlertKey(type, p)
        IN  /\ key \in DOMAIN activeAlerts <=> events # {}
            /\ events # {} =>
                  activeAlerts[key] = alertHistory[Greatest(events)].timestamp

\* consecutive events of a process and type are more than the cooldown apart
EventsSpaced ==
    \A p \in Pids : \A type \in AlertTypes :
        LET events == EventsOf(alertHistory, p, type)
        IN  \A i, j \in events :
                (i < j /\ \A k \in events : ~(i < k /\ k < j))
                => alertHistory[j].timestamp - alertHistory[i].timestamp > ALERT_COOLDOWN

(* C28: a suppression entry exists for a process and alert type exactly    *)
(* when the log holds an event of that pair, its value is the timestamp of *)
(* the latest such event, and consecutive events of the pair are more than *)
(* 30000 ms apart.                                                         *)
C28_EntriesMatchLog == EntryOfLatestEvent /\ EventsSpaced

----------------------------------------------------------------------------
\* the places of a process in the flattened list
PlacesOf(p) == {i \in 1..Len(flat) : flat[i] = p}

(* C29: flattenTree(buildProcessTree(...)) returns, and its result holds   *)
(* every filtered process exactly once, whatever the parent map: self      *)
(* parents and cycles of parents included.                                 *)
C29_EachProcessOnce ==
    treePc = "flattened" =>
        /\ \A p \in FilteredPids : Cardinality(PlacesOf(p)) = 1
        /\ Len(flat) = Len(filtered)

----------------------------------------------------------------------------
\* a step in which the loop of startMonitor is cancelled
MonitorCancelled == pc \in {"polling", "sleeping"} /\ pc' = "exited"

\* a step in which the loop of startTrace ends
TraceEnded == tracePc \in {"polling", "sleeping"} /\ tracePc' = "exited"

\* the summary and the export of a cancelled session are those of the
\* history as it stands, and the process ends
MonitorFlushed ==
    /\ history' = history
    /\ summary' = Some(RenderSummary(history))
    /\ exported' = (IF exportOnExit THEN Some(ExportToJSON(history)) ELSE Undefined)
    /\ exitCode' = Some(0)
    /\ ticks' = ticks

\* the graphs and the export of a trace that ends are those of its history
\* as it stands, and the process ends
TraceFlushed ==
    /\ traceHistory' = traceHistory
    /\ graphs' = Some(RenderTraceGraphs(Val(traceHistory)))
    /\ exported' = (IF exportOnExit THEN Some(ExportTraceToCSV(Val(traceHistory)))
                    ELSE Undefined)
    /\ exitCode' = Some(0)

(* C21: the interrupt signal can arrive while the provider is awaited and  *)
(* while the loop sleeps; the step it causes renders the summary (the      *)
(* graphs, in trace mode) of the history as it stands, writes the export   *)
(* exactly if it is configured and ends the process; once the process has  *)
(* ended nothing happens any more: no further tick begins.                 *)
C21_Cancellation ==
    /\ [](pc \in {"polling", "sleeping"} => ENABLED Interrupt)
    /\ [](tracePc \in {"polling", "sleeping"} => ENABLED TraceInterrupt)
    /\ [][/\ exitCode = Undefined
          /\ MonitorCancelled => MonitorFlushed
          /\ TraceEnded => TraceFlushed]_vars

\* a session cancelled while its third call of the provider was pending:
\* the summary and the export have the records of the two ticks made
C21_Witness ==
    /\ pc = "exited"
    /\ exitCode = Some(0)
    /\ ticks = MaxCliTicks
    /\ now = MaxCliTicks * interval
    /\ LongLived \in DOMAIN history
    /\ history[LongLived].samples = MaxCliTicks
    /\ summary = Some(RenderSummary(history))
    /\ exported = Some(ExportToJSON(history))

----------------------------------------------------------------------------
\* the three histories of the trace have one length
TraceInStep ==
    traceHistory # Undefined =>
        /\ Len(Val(traceHistory).timestamps) = Len(Val(traceHistory).cpuHistory)
        /\ Len(Val(traceHistory).timestamps) = Len(Val(traceHistory).memoryHistory)

\* what the provider of the tick answered for the traced process
TracedStat == MapGet(GetProcessStats(<<tracePid>>, poll'.provider), tracePid)

\* a tick of the trace appends one entry to each history, the reading of
\* the tick, and keeps all the entries there were; or the provider has no
\* reading, and the trace ends with its history as it was: the graphs are
\* rendered, the CSV file is written exactly if it is configured
TraceTickOutcome ==
    (tracePc = "polling" /\ tracePc' # "polling") =>
        IF tracePc' = "sleeping"
        THEN /\ TracedStat # Undefined
             /\ Val(traceHistory').timestamps = Append(Val(traceHistory).timestamps, now)
             /\ Val(traceHistory').cpuHistory =
                   Append(Val(traceHistory).cpuHistory, Val(TracedStat).cpu)
             /\ Val(traceHistory').memoryHistory =
                   Append(Val(traceHistory).memoryHistory,
                          Val(TracedStat).memory \div BytesPerMB)
        ELSE TraceFlushed

\* the histories change in no other step
TraceKept ==
    (tracePc \in {"sleeping", "exited"}) => traceHistory' = traceHistory

(* C30: the three histories of a trace always have the same length; every  *)
(* tick with a reading appends exactly one entry to each and drops none;   *)
(* the first tick in which the provider has no reading for the traced pid  *)
(* appends nothing, renders the final graphs, writes the CSV file exactly  *)
(* if the export is configured and ends the process: no tick follows.      *)
C30_TraceEndsOnMissingSample ==
    /\ [](TraceInStep)
    /\ [][TraceTickOutcome /\ TraceKept /\ exitCode = Undefined]_vars

\* a trace of more than a hundred samples that ended because the provider
\* had no reading, with the export configured: the file has every sample
C30_Witness ==
    /\ tracePc = "exited"
    /\ exitCode = Some(0)
    /\ MapGet(GetProcessStats(<<tracePid>>, poll.provider), tracePid) = Undefined
    /\ Len(Val(traceHistory).timestamps) > maxHistory
    /\ Val(traceHistory).cpuHistory[1] = Val(traceHistory).peakCPU
    /\ graphs = Some(RenderTraceGraphs(Val(traceHistory)))
    /\ exported # Undefined
    /\ Len(Val(exported)) = Len(Val(traceHistory).timestamps)

----------------------------------------------------------------------------
\* the string is a decimal number
WellFormed(s) == Len(s) > 0 /\ RunOf(s, 1, Range(Digits)) = Len(s)

\* the configuration is invalid: the interval is malformed or below the
\* minimum, or the trace target is malformed
InvalidConfiguration ==
    \/ ~WellFormed(options.interval)
    \/ DecimalValue(options.interval) < MinInterval
    \/ options.trace # Undefined /\ ~WellFormed(Val(options.trace))

\* main ends the process with a status that is not zero, and no state of
\* a session, of the alerts or of the dashboard is created
FatalAtStartup ==
    /\ cliPc' = "failed"
    /\ exitCode' # Undefined
    /\ Val(exitCode') # 0
    /\ UNCHANGED <<sessionVars, webVars, dockerVars, traceVars>>

(* C23: an invalid configuration is fatal before the loop begins: if the   *)
(* interval is malformed or below 100 ms, or the trace target is not a     *)
(* valid pid, main ends the process with a non-zero status before          *)
(* startMonitor or startTrace is entered; no tick runs with an interval    *)
(* below 100 ms, and no history, alert or dashboard state is created.      *)
C23_InvalidConfigurationFatal ==
    /\ [](cliPc = "started" => interval >= MinInterval)
    /\ [][(cliPc = "main" /\ InvalidConfiguration) => FatalAtStartup]_vars

\* the part of C23 that holds: no loop runs with an interval below 100 ms
IntervalAtLeastMinimum == cliPc = "started" => interval >= MinInterval

----------------------------------------------------------------------------
\* the snapshot a request reads before any tick has published
NothingPublished == [processes |-> <<>>, history |-> EmptyMap]

\* what the last completed tick published
LastPublished == IF published = Undefined THEN NothingPublished ELSE Val(published)

\* a request reads what one tick published as a whole, and every process
\* of the list has a record in the history read with it
WholeSnapshot ==
    /\ Snapshot = LastPublished
    /\ GenerateJSON(Snapshot) = GenerateJSON(LastPublished)
    /\ \A i \in 1..Len(Snapshot.processes) :
          Snapshot.processes[i].pid \in DOMAIN Snapshot.history

\* what is read changes only when a tick publishes, and then both the list
\* and the history are those of that tick
ReplacedByTick ==
    Snapshot' # Snapshot =>
        /\ TickStep
        /\ Snapshot' = [processes |-> processes', history |-> history']

(* C22: a dashboard request served at any await point reads a snapshot     *)
(* published as a whole by one completed tick: the list and the history    *)
(* are those of one tick, every listed process has a history record, and   *)
(* what is read changes only by being replaced by the next tick.           *)
C22_SnapshotHandoff == [](WholeSnapshot) /\ [][ReplacedByTick]_vars

\* after two ticks: the list of the second tick, with the record of a
\* process the second tick did not list, and a listed process served under
\* the name of its first sighting
C22_Witness ==
    /\ ticks = 2
    /\ published # Undefined
    /\ Len(Snapshot.processes) = 1
    /\ DOMAIN Snapshot.history = Pids
    /\ \E i \in 1..Len(Snapshot.processes) :
          GenerateJSON(Snapshot)[i].name # DisplayName(Snapshot.processes[i])

----------------------------------------------------------------------------
\* the processes of the operating system's list that are the main process
\* of a container that runs when the tick asks
ContainerMains(pl) == pl.lister.running \cap Range(pl.daemon.containers)

(* C25: in every tick of a Docker-only session, whether Docker mode was    *)
(* chosen at the prompt or asked for with --docker, the processes          *)
(* monitored, which get a history record, are exactly the listed processes *)
(* whose pid is the main pid of a running container.                       *)
C25_ContainerMainsMonitored ==
    [][(TickStep /\ dockerOnly /\ ~poll'.daemon.failed) =>
          /\ ListedPids(processes') = ContainerMains(poll')
          /\ ContainerMains(poll') \subseteq DOMAIN history']_vars

\* the part of C25 that holds while the list of containers is fresh: no
\* process is monitored that is not the main process of a container
OnlyContainerMains ==
    [][(TickStep /\ dockerOnly /\ ~poll'.daemon.failed /\ lastFetch' = now) =>
          ListedPids(processes') \subseteq ContainerMains(poll')]_vars

----------------------------------------------------------------------------
\* the last call was made after a fetch that succeeded, `age` after it
AfterFetch == lookup.n > 0 /\ lookup.since # Undefined
Age == lookup.at - Val(lookup.since)

\* a call at least the time-to-live after the last fetch that succeeded
\* runs wmic, and serves the lines it had cached only if wmic fails
RefreshWhenStale ==
    (AfterFetch /\ Age >= CMD_LINE_CACHE_TTL) =>
        /\ lookup.called
        /\ ~lookup.failed => lookup.returned = cmdLineCache /\ lastCmdLineFetch = lookup.at
        /\ lookup.failed => lookup.returned = lookup.before

(* C24 as stated: a lookup less than 5000 ms after the last successful     *)
(* fetch is answered from the cache without a new external call; a lookup  *)
(* 5000 ms or more after it triggers a refresh attempt, and the stale      *)
(* lines are served only when that refresh fails.                          *)
C24_CacheTtl ==
    /\ (AfterFetch /\ Age < CMD_LINE_CACHE_TTL) =>
          ~lookup.called /\ lookup.returned = lookup.before
    /\ RefreshWhenStale

(* C24 amended: a lookup less than 5000 ms after the last successful fetch *)
(* is answered from the cache without a new external call if that fetch    *)
(* found at least one command line, and runs the external command again if *)
(* it found none; a lookup 5000 ms or more after it triggers a refresh     *)
(* attempt, and the stale lines are served only when that refresh fails.   *)
C24_CacheTtlUnlessEmpty ==
    /\ (AfterFetch /\ Age < CMD_LINE_CACHE_TTL) =>
          IF DOMAIN lookup.before # {}
          THEN ~lookup.called /\ lookup.returned = lookup.before
          ELSE lookup.called
    /\ RefreshWhenStale

\* a fetch, a call 4999 ms later served from the cache, and a call 5000 ms
\* after the fetch in which wmic fails and the stale lines are served
C24_Witness ==
    /\ lookup.n = 3
    /\ AfterFetch
    /\ Age = CMD_LINE_CACHE_TTL
    /\ lookup.failed
    /\ DOMAIN lookup.returned # {}
    /\ lookup.returned = lookup.before

====
